---- MODULE Spec2Model ----
(***************************************************************************)
(* The command-stream assembler of src/panfrost/csf_test/interpret.py:     *)
(* Buffer / Level / Alloc / Context and Context.interpret, one step per    *)
(* line of program text.                                                   *)
(*                                                                         *)
(* A 64-bit word is kept as four 16-bit lanes,                             *)
(*   [hi |-> bits 48..63, v2 |-> bits 32..47, v1 |-> 16..31, v0 |-> 0..15] *)
(* so that no intermediate value leaves the range of the checker's         *)
(* integers.  Python's None is the empty set and a present value v is {v}. *)
(***************************************************************************)
EXTENDS Integers, Sequences, FiniteSets, TLC

VARIABLES
    allocs,        \* Context.allocs: name -> Alloc
    levels,        \* Context.levels: stack of Level ids, bottom first
    l,             \* Context.l: the active Level ({} is None)
    completed,     \* Context.completed: Level ids in completion order
    heap,          \* the Level objects, by Buffer id
    reloc,         \* Context.reloc
    reloc_split,   \* Context.reloc_split
    exe,           \* Context.exe
    last_exe,      \* Context.last_exe ({} is None)
    is_call,       \* Context.is_call
    nextId,        \* Buffer.id, the class-wide id counter
    old_indent,    \* local old_indent of Context.interpret ({} is None)
    is_num_bound,  \* whether the local helper is_num has been bound yet
    status,        \* "running", "aborted" (an exception left interpret) or "done"
    lineno,        \* number of lines of the text consumed so far
    last_line,     \* the last non-blank line consumed and its number ({} before
                   \* the first)
    abort_reason,  \* the exception that ended assembly
    closes,        \* history: one record per Level popped by pop_until
    log,           \* history: Levels opened, calls, label definitions, branches
                   \* and patches, in order
    reports,       \* what the run has printed: label reuse, mismatches, unknown
                   \* commands
    text,          \* the raw lines interpret(text) has consumed, when the text is
                   \* given as characters
    first_out      \* the output of an earlier call of interpret(text) in the same
                   \* process ({} while the first call runs)

vars == <<allocs, levels, l, completed, heap, reloc, reloc_split, exe, last_exe,
          is_call, nextId, old_indent, is_num_bound, status, lineno, last_line,
          abort_reason, closes, log, reports, text, first_out>>

----------------------------------------------------------------------------
(* Bounds of the model *)

\* lines of program text consumed in one run of Spec
MaxLines == 6
\* lines of program text consumed in one run of SpecLabel
MaxLabelLines == 5
\* lines of program text consumed in one run of SpecBranch
MaxBranchLines == 3
\* lines of program text consumed in one run of SpecInsn
MaxInsnLines == 2
\* descriptor tables in the registry of one run of SpecDesc
MaxTables == 2
\* entries of one descriptor table in SpecDesc
MaxTableLen == 3
\* lines of program text consumed in one run of SpecDesc
MaxDescLines == 1
\* lines of program text consumed in one run of SpecExe
MaxExeLines == 4
\* lines of program text consumed in one run of SpecText
MaxTextLines == 3
\* lines of program text consumed in one run of SpecRel after its prepared text
MaxRelLines == 1
\* words before the branch (or before the label) in the prepared texts of SpecRel
MaxRelWords == 4

----------------------------------------------------------------------------
(* Small helpers *)

None == {}
Some(v) == {v}
The(s) == CHOOSE v \in s : TRUE

Last(s) == s[Len(s)]
Front(s) == SubSeq(s, 1, Len(s) - 1)

Lane == 65536

----------------------------------------------------------------------------
(* 64-bit words *)

Word(hi, v2, v1, v0) == [hi |-> hi, v2 |-> v2, v1 |-> v1, v0 |-> v0]

\* code = (cmd << 56) | (addr << 48) | value, for addr < 256 and value < 2^48
Encode(cmd, addr, v2, v1, v0) == Word(cmd * 256 + addr, v2, v1, v0)

\* word >> 48
Top16(w) == w.hi

\* a variant of MaskTop that leaves the word as it is
MaskTopKept(w) == w

\* word & (0xffff << 48)
MaskTop(w) == Word(w.hi, 0, 0, 0)

\* a variant of SetLow that adds n without masking the low 48 bits first
SetLowUnmasked(w, n) ==
    LET s0 == w.v0 + n
        s1 == w.v1 + (s0 \div Lane)
        s2 == w.v2 + (s1 \div Lane)
    IN  Word((w.hi + (s2 \div Lane)) % Lane, s2 % Lane, s1 % Lane, s0 % Lane)

\* (word & (0xffff << 48)) + n, for 0 <= n
SetLow(w, n) == Word(w.hi, (n \div Lane) \div Lane, (n \div Lane) % Lane, n % Lane)

\* word + value, for 0 <= value: the carry runs up the lanes
AddValue(w, value) ==
    LET s0 == w.v0 + value
        s1 == w.v1 + (s0 \div Lane)
        s2 == w.v2 + (s1 \div Lane)
    IN  Word(w.hi + (s2 \div Lane), s2 % Lane, s1 % Lane, s0 % Lane)

\* whether the low 48 bits of w are the number n
Low48Is(w, n) ==
    /\ w.v0 = n % Lane
    /\ w.v1 = (n \div Lane) % Lane
    /\ w.v2 = (n \div Lane) \div Lane

\* a | b on Python integers of either sign; a \div 2 is the arithmetic shift
RECURSIVE BitOr(_, _)
BitOr(a, b) ==
    IF a = 0 THEN b
    ELSE IF b = 0 THEN a
    ELSE IF a = -1 \/ b = -1 THEN -1
    ELSE 2 * BitOr(a \div 2, b \div 2) + (IF a % 2 = 1 \/ b % 2 = 1 THEN 1 ELSE 0)

\* a Python integer of any size in the lanes of a word: v0, v1, v2 are its
\* bits 0..47 and hi is the integer shifted right by 48, negative for a
\* negative integer.  Num(n) is that form of a small integer n.
Num(n) ==
    Word(IF n < 0 THEN -1 ELSE 0, IF n < 0 THEN Lane - 1 ELSE 0,
         (n \div Lane) % Lane, n % Lane)

\* code = (cmd << 56) | (addr << 48) | value, for any addr and value
Code(cmd, addr, value) ==
    Word(BitOr(BitOr(cmd * 256, addr), value.hi), value.v2, value.v1, value.v0)

\* 1 << p
Pow2(p) == 2 ^ p

\* (1 << p) as lanes, for 0 <= p
Bit(p) ==
    Word(IF p >= 48 THEN Pow2(p - 48) ELSE 0,
         IF p >= 32 /\ p < 48 THEN Pow2(p - 32) ELSE 0,
         IF p >= 16 /\ p < 32 THEN Pow2(p - 16) ELSE 0,
         IF p < 16 THEN Pow2(p) ELSE 0)

----------------------------------------------------------------------------
(* resolve_rel and to_int16 *)

resolve_rel(to, branch) == ((to - branch) \div 8) - 1

Int16AssertHigh == 36768
Int16AssertLow == -32768

\* the two assertions of to_int16
to_int16_ok(value) == value < Int16AssertHigh /\ value >= Int16AssertLow

\* value & 0xffff
to_int16(value) == value % Lane

\* a 16-bit field read back as a signed number
SignExtend16(f) == IF f >= 32768 THEN f - Lane ELSE f

----------------------------------------------------------------------------
(* Python dicts: functions whose domain is the set of keys *)

EmptyDict == <<>>
Has(d, k) == k \in DOMAIN d
Put(d, k, v) == [x \in (DOMAIN d) \cup {k} |-> IF x = k THEN v ELSE d[x]]
Del(d, k) == [x \in (DOMAIN d) \ {k} |-> d[x]]

----------------------------------------------------------------------------
(* class Level(Buffer) *)

\* Level.__init__ without the id, which is the key of the Level in heap
NewLevel(indent) ==
    [indent |-> indent, buffer |-> <<>>,
     call_addr_offset |-> None, call_len_offset |-> None,
     labels |-> EmptyDict, label_refs |-> <<>>,
     num_labels |-> EmptyDict, num_refs |-> EmptyDict]

\* Level.offset
offset(lvl) == Len(lvl.buffer) * 8

\* Level.buffer_add_value
buffer_add_value(lvl, ofs, value) ==
    [lvl EXCEPT !.buffer[(ofs \div 8) + 1] = AddValue(@, value)]

\* list[i] of Python for a possibly negative i: the 1-based place, 0 when the
\* index is out of range (IndexError)
PyIndex(n, i) ==
    IF i >= 0 THEN (IF i < n THEN i + 1 ELSE 0)
    ELSE (IF n + i >= 0 THEN n + i + 1 ELSE 0)

----------------------------------------------------------------------------
(* The Context, gathered into one record while a handler runs.  err is the *)
(* exception raised so far ("" when none): every step after it is skipped. *)

Ctx ==
    [allocs |-> allocs, levels |-> levels, l |-> l, completed |-> completed,
     heap |-> heap, reloc |-> reloc, reloc_split |-> reloc_split, exe |-> exe,
     last_exe |-> last_exe, is_call |-> is_call, nextId |-> nextId,
     old_indent |-> old_indent, is_num_bound |-> is_num_bound,
     closes |-> closes, log |-> log, reports |-> reports, err |-> ""]

Fail(c, why) == [c EXCEPT !.err = why]
Ok(c) == c.err = ""

\* the Level object self.l
CurLevel(c) == c.heap[The(c.l)]

\* Context.set_l
set_l(c) == IF Len(c.levels) > 0 THEN [c EXCEPT !.l = Some(Last(c.levels))] ELSE c

\* a variant of PushLevel whose new Level starts with the numeric labels of
\* the current one
PushLevelInherit(c, indent) ==
    LET id == c.nextId
        lv == IF c.l = None THEN NewLevel(indent)
              ELSE [NewLevel(indent) EXCEPT !.num_labels = c.heap[The(c.l)].num_labels]
    IN  [c EXCEPT !.heap = (id :> lv) @@ @,
                  !.levels = Append(@, id),
                  !.nextId = id + 1]

\* a variant of PushLevel that leaves the id counter where it was
PushLevelSameId(c, indent) ==
    LET id == c.nextId
    IN  [c EXCEPT !.heap = (id :> NewLevel(indent)) @@ @,
                  !.levels = Append(@, id)]

\* self.levels.append(Level(indent)): Buffer.__init__ takes the next id
PushLevel(c, indent) ==
    LET id == c.nextId
    IN  [c EXCEPT !.heap = (id :> NewLevel(indent)) @@ @,
                  !.levels = Append(@, id),
                  !.nextId = id + 1]

LogEvent(k, lvl, n, s, ofs, to) ==
    [k |-> k, lvl |-> lvl, n |-> n, s |-> s, ofs |-> ofs, to |-> to]

\* print(...): the message kind, the stream, and where the active Level stood
Report(c, k, stream) ==
    [c EXCEPT !.reports = Append(@, [k |-> k, stream |-> stream, lvl |-> The(c.l),
                                     ofs |-> offset(c.heap[The(c.l)])])]

\* Level.process_relocs on Level id: refs is a list of [n, s, ofs]; to is None
\* (look the symbolic label up) or the target offset
RECURSIVE process_relocs(_, _, _, _)
process_relocs(c, id, refs, to) ==
    IF ~Ok(c) \/ refs = <<>> THEN c
    ELSE
        LET ref == Head(refs)
            lvl == c.heap[id]
        IN  IF to = None /\ ~Has(lvl.labels, ref.s)
            THEN Fail(c, "KeyError: label")
            ELSE
                LET goto == IF to = None THEN lvl.labels[ref.s] ELSE The(to)
                    d == resolve_rel(goto, ref.ofs)
                IN  IF ~to_int16_ok(d)
                    THEN Fail(c, "AssertionError: to_int16")
                    ELSE process_relocs(
                            [c EXCEPT !.heap[id] = buffer_add_value(@, ref.ofs, to_int16(d)),
                                      !.log = Append(@, LogEvent("patch", id, ref.n, ref.s,
                                                                 ref.ofs, goto))],
                            id, Tail(refs), to)

\* Level.finish
finish(c, id) == process_relocs(c, id, c.heap[id].label_refs, None)

----------------------------------------------------------------------------
(* Context.pop_until and Context.flush_exe *)

CloseEvent(child, parent, r) ==
    [child |-> child, parent |-> parent,
     addr_ofs |-> IF parent = None THEN None ELSE r.call_addr_offset,
     len_ofs |-> IF parent = None THEN None ELSE r.call_len_offset,
     addr_top |-> IF parent = None \/ r.call_addr_offset = None THEN None
                  ELSE Some(Top16(r.buffer[PyIndex(Len(r.buffer), The(r.call_addr_offset))])),
     len_top |-> IF parent = None \/ r.call_len_offset = None THEN None
                 ELSE Some(Top16(r.buffer[PyIndex(Len(r.buffer), The(r.call_len_offset))]))]

\* lines 1114-1124: the parent r of the popped Level child is patched
PatchCallSite(c, child) ==
    LET rid == The(c.l)
        r == c.heap[rid]
        buf_len == offset(c.heap[child])
    IN  IF r.call_addr_offset = None
        THEN Fail(c, "TypeError: call_addr_offset is None")
        ELSE IF r.call_len_offset = None
        THEN Fail(c, "TypeError: call_len_offset is None")
        ELSE
            LET a == PyIndex(Len(r.buffer), The(r.call_addr_offset))
                n == PyIndex(Len(r.buffer), The(r.call_len_offset))
                b1 == [r.buffer EXCEPT ![n] = SetLow(@, buf_len)]
                b2 == [b1 EXCEPT ![a] = MaskTop(@)]
            IN  [c EXCEPT !.reloc = Append(@, <<rid, The(r.call_addr_offset) * 8, child, 0>>),
                          !.heap[rid] = [r EXCEPT !.buffer = b2,
                                                  !.call_addr_offset = None,
                                                  !.call_len_offset = None],
                          !.closes = Append(@, CloseEvent(child, Some(rid), r))]

RECURSIVE pop_until(_, _)
pop_until(c, indent) ==
    IF ~Ok(c) THEN c
    ELSE IF CurLevel(c).indent = indent THEN c
    ELSE IF Len(c.levels) = 0 THEN Fail(c, "IndexError: pop from empty list")
    ELSE
        LET child == Last(c.levels)
            c1 == set_l([c EXCEPT !.levels = Front(@),
                                  !.completed = Append(@, child)])
        IN  IF Len(c1.levels) = 0
            THEN [c1 EXCEPT !.closes = Append(@, CloseEvent(child, None, c1.heap[child]))]
            ELSE pop_until(PatchCallSite(c1, child), indent)

\* lines 1130-1136 of flush_exe: a non-empty bottom Level is finished, completed
\* and replaced by a fresh Level of the same indentation
FlushTop(c, ind) ==
    IF ~Ok(c) THEN c
    ELSE IF Len(c.levels) = 0 THEN Fail(c, "IndexError: levels[0]")
    ELSE IF Len(c.heap[c.levels[1]].buffer) = 0 THEN c
    ELSE
        LET id == Last(c.levels)
            c1 == finish([c EXCEPT !.levels = Front(@)], id)
        IN  IF ~Ok(c1) THEN c1
            ELSE set_l(PushLevel([c1 EXCEPT !.completed = Append(@, id)], ind))

\* lines 1138-1151 of flush_exe
FlushExe(c, ind) ==
    IF ~Ok(c) THEN c
    ELSE IF Len(c.exe) = 0 THEN c
    ELSE IF c.last_exe = None THEN Report(c, "confused", "stdout")
    ELSE
        LET c1 == IF Len(c.completed) = 0 THEN c
                  ELSE LET p == Last(c.completed)
                       IN  IF c.heap[p].indent # ind
                           THEN Fail(c, "AssertionError: p.indent == ind")
                           ELSE [c EXCEPT !.exe[The(c.last_exe) + 1] =
                                              @ \o <<p, offset(c.heap[p])>>]
        IN  IF ~Ok(c1) THEN c1 ELSE [c1 EXCEPT !.last_exe = None]

flush_exe(c) ==
    IF ~Ok(c) THEN c
    ELSE IF Len(c.levels) = 0 THEN Fail(c, "IndexError: levels[0]")
    ELSE
        LET ind == c.heap[c.levels[1]].indent
        IN  FlushExe(FlushTop(pop_until(c, ind), ind), ind)

----------------------------------------------------------------------------
(* Lines of program text.  A line is                                       *)
(*   indent  the number of leading blanks                                  *)
(*   lk      "none", "num" (label `ln:`) or "sym" (label `ls:`)            *)
(*   m       the mnemonic after the label ("" for a label-only line)       *)
(*   rw, r1, r2, imm   register width letter, register indices, immediate  *)
(*   tk, tn, ts  branch target: "sym" ts, "nb" tn, "nf" tn, "skip" tn,     *)
(*               "back" tn                                                 *)
(*   argc    the number of tokens from the mnemonic on                     *)
(*   val     the immediate as an integer of any size (Num(imm) unless set) *)
(*   sym     the symbolic operand `$name+off` in the immediate's place, as *)
(*           {[name, off]}; `$.` has the name "."                          *)
(*   given   the 16-hex-digit annotation before the instruction, as {word} *)
(*   bad     the exception that reading the operands raises ("" when    *)
(*           they are read without one)                                    *)
(*   args    the operands of a directive other than !cs, in order: names   *)
(*           as strings, numbers as read by int or val                     *)

\* len(s) once the label is off s
Argc(m, tk) ==
    CASE m = "" -> 0
      [] m = "nop" -> 1
      [] m \in {"mov", "movp"} -> 3
      [] m \in {"call", "tailcall"} -> 3
      [] m = "b" -> IF tk \in {"skip", "back"} THEN 3 ELSE 2
      [] m \in {"!cs", "wait", "slot"} -> 2
      [] m = "add" -> 4
      [] m = "idvs" -> 6
      [] OTHER -> 1

Line(indent, lk, ln, ls, m, rw, r1, r2, imm, tk, tn, ts) ==
    [indent |-> indent, lk |-> lk, ln |-> ln, ls |-> ls, m |-> m, rw |-> rw,
     r1 |-> r1, r2 |-> r2, imm |-> imm, tk |-> tk, tn |-> tn, ts |-> ts,
     argc |-> Argc(m, tk), val |-> Num(imm), sym |-> None, given |-> None,
     bad |-> "", args |-> <<>>]

Nop(i)            == Line(i, "none", 0, "", "nop", "", 0, 0, 0, "", 0, "")
Mov(i, rw, r, v)  == Line(i, "none", 0, "", "mov", rw, r, 0, v, "", 0, "")
Call(i, m, n, t)  == Line(i, "none", 0, "", m, "", n, t, 0, "", 0, "")
Branch(i, tk, tn, ts) == Line(i, "none", 0, "", "b", "w", 0, 0, 0, tk, tn, ts)
Cs(i, n)          == Line(i, "none", 0, "", "!cs", "", 0, 0, n, "", 0, "")
NumLabel(i, n)    == Line(i, "num", n, "", "", "", 0, 0, 0, "", 0, "")
SymLabel(i, s)    == Line(i, "sym", 0, s, "", "", 0, 0, 0, "", 0, "")
WithLabel(ln, lab) == [ln EXCEPT !.lk = lab.lk, !.ln = lab.ln, !.ls = lab.ls]

\* `movp xR, <imm>`, `add <rw>R, <rw>S, <imm>`, `wait N`, `wait all`,
\* `slot <imm>`, `idvs <unk> mode <mode> index <index>` and a line whose
\* mnemonic m is none of the assembler's
Movp(i, r)          == Line(i, "none", 0, "", "movp", "x", r, 0, 0, "", 0, "")
Add(i, rw, r, r2)   == Line(i, "none", 0, "", "add", rw, r, r2, 0, "", 0, "")
Wait(i, n)          == Line(i, "none", 0, "", "wait", "", 0, 0, n, "", 0, "")
WaitAll(i)          == Line(i, "none", 0, "", "wait", "", 0, 0, 0, "", 0, "all")
Slot(i)             == Line(i, "none", 0, "", "slot", "", 0, 0, 0, "", 0, "")
Idvs(i, unk, mode, index) ==
    Line(i, "none", 0, "", "idvs", "", mode, index, unk, "", 0, "")
Unknown(i, m)       == [Line(i, "none", 0, "", m, "", 0, 0, 0, "", 0, "") EXCEPT !.argc = 2]

\* the directives `!parallel N`, `!alloc name size [flags]`,
\* `!dump name offset size` (and !dump64, !fdump, !delta, !tiler),
\* `!heatmap name offset size gran G len L stride S`,
\* `!memset name offset value size` and `!raw tokens...`
Directive(i, m, args) ==
    [Line(i, "none", 0, "", m, "", 0, 0, 0, "", 0, "") EXCEPT
        !.args = args,
        !.argc = IF m = "!heatmap" THEN 10 ELSE 1 + Len(args)]
Parallel(i, n) == Directive(i, "!parallel", <<n>>)
AllocDir(i, name, size) == Directive(i, "!alloc", <<name, size>>)
AllocFlags(i, name, size, flags) == Directive(i, "!alloc", <<name, size, flags>>)
Dump(i, m, name, ofs, size) == Directive(i, m, <<name, ofs, size>>)
Heatmap(i, name, ofs, size, gran, length, stride) ==
    Directive(i, "!heatmap", <<name, ofs, size, gran, length, stride>>)
Memset(i, name, ofs, value, size) == Directive(i, "!memset", <<name, ofs, value, size>>)
Raw(i, toks) == Directive(i, "!raw", toks)

\* the line with its immediate, its symbolic operand, its annotation
WithVal(ln, v) == [ln EXCEPT !.val = v]
WithSym(ln, name, off) ==
    [ln EXCEPT !.val = Num(0), !.sym = Some([name |-> name, off |-> off])]
WithGiven(ln, w) == [ln EXCEPT !.given = Some(w)]

\* len(s) while the label is still part of s
NumTokens(ln) == (IF ln.lk = "none" THEN 0 ELSE 1) + ln.argc

IsCallLine(ln) == ln.m \in {"call", "tailcall"}

----------------------------------------------------------------------------
(* The text as characters: a raw line is a sequence of one-character        *)
(* strings, and Lex reads it as lines 1204-1233 and the operand readers     *)
(* reg, val and int do.  Blanks are spaces (no tabs), numbers are decimal   *)
(* or 0x-hexadecimal and below 2^31, and a line has at most one `$`         *)
(* operand.                                                                 *)

UpperCase == << "A", "B", "C", "D", "E", "F", "G", "H", "I", "J", "K", "L", "M",
                "N", "O", "P", "Q", "R", "S", "T", "U", "V", "W", "X", "Y", "Z" >>
LowerCase == << "a", "b", "c", "d", "e", "f", "g", "h", "i", "j", "k", "l", "m",
                "n", "o", "p", "q", "r", "s", "t", "u", "v", "w", "x", "y", "z" >>
HexDigits == << "0", "1", "2", "3", "4", "5", "6", "7", "8", "9",
                "a", "b", "c", "d", "e", "f" >>

\* str.find(ch) + 1: the first place of ch in cs, 0 when it has none
IndexOf(cs, ch) ==
    IF \E i \in 1..Len(cs) : cs[i] = ch
    THEN CHOOSE i \in 1..Len(cs) : cs[i] = ch /\ \A j \in 1..(i - 1) : cs[j] # ch
    ELSE 0

\* str.lower()
lower(cs) ==
    [i \in 1..Len(cs) |->
        IF IndexOf(UpperCase, cs[i]) > 0 THEN LowerCase[IndexOf(UpperCase, cs[i])]
        ELSE cs[i]]

\* orig_line.split("@")[0]
BeforeAt(cs) == IF IndexOf(cs, "@") = 0 THEN cs ELSE SubSeq(cs, 1, IndexOf(cs, "@") - 1)

\* str.rstrip(ch), str.lstrip(ch), str.strip(ch)
RECURSIVE rstrip(_, _)
rstrip(cs, ch) == IF cs # <<>> /\ Last(cs) = ch THEN rstrip(Front(cs), ch) ELSE cs
RECURSIVE lstrip(_, _)
lstrip(cs, ch) == IF cs # <<>> /\ Head(cs) = ch THEN lstrip(Tail(cs), ch) ELSE cs
strip(cs, ch) == lstrip(rstrip(cs, ch), ch)

\* str.split(): the runs of non-blank characters
RECURSIVE split(_)
split(cs) ==
    LET t == lstrip(cs, " ")
        sp == IndexOf(t, " ")
    IN  IF t = <<>> THEN <<>>
        ELSE IF sp = 0 THEN <<t>>
        ELSE <<SubSeq(t, 1, sp - 1)>> \o split(SubSeq(t, sp + 1, Len(t)))

\* the characters as one string
RECURSIVE Join(_)
Join(cs) == IF cs = <<>> THEN "" ELSE Head(cs) \o Join(Tail(cs))

\* the characters are digits of the base, at least one
IsDigits(cs, base) ==
    cs # <<>> /\ \A i \in 1..Len(cs) : IndexOf(HexDigits, cs[i]) \in 1..base

RECURSIVE DigitsValue(_, _)
DigitsValue(cs, base) ==
    IF cs = <<>> THEN 0
    ELSE DigitsValue(Front(cs), base) * base + (IndexOf(HexDigits, Last(cs)) - 1)

\* int(word, base) for base 10 and 16, int(word, 0) for base 0: {n}, or {} for
\* a ValueError.  Base 0 takes a 0x prefix and refuses a decimal with a
\* leading zero.
int(cs, base) ==
    LET neg == cs # <<>> /\ Head(cs) = "-"
        body == IF neg THEN Tail(cs) ELSE cs
        prefixed == Len(body) > 2 /\ body[1] = "0" /\ body[2] = "x"
        hex == SubSeq(body, 3, Len(body))
        n == IF prefixed /\ base \in {0, 16}
             THEN (IF IsDigits(hex, 16) THEN Some(DigitsValue(hex, 16)) ELSE None)
             ELSE IF base = 16
             THEN (IF IsDigits(body, 16) THEN Some(DigitsValue(body, 16)) ELSE None)
             ELSE IF ~IsDigits(body, 10) THEN None
             ELSE IF base = 0 /\ Len(body) > 1 /\ body[1] = "0"
                     /\ DigitsValue(body, 10) # 0 THEN None
             ELSE Some(DigitsValue(body, 10))
    IN  IF n = None THEN None ELSE Some(IF neg THEN 0 - The(n) ELSE The(n))

\* line 1277: is_num
is_num(cs) == IsDigits(cs, 10)

\* lines 1229-1231: re.match(r"[0-9a-f]{16} ", line)
HasGivenCode(cs) ==
    Len(cs) >= 17 /\ IsDigits(SubSeq(cs, 1, 16), 16) /\ cs[17] = " "

\* line 1230: int(line[:16], 16)
GivenCode(cs) ==
    Word(DigitsValue(SubSeq(cs, 1, 4), 16), DigitsValue(SubSeq(cs, 5, 8), 16),
         DigitsValue(SubSeq(cs, 9, 12), 16), DigitsValue(SubSeq(cs, 13, 16), 16))

\* line 1204: the line without its comment, trailing blanks and capitals
Stripped(cs) == lower(rstrip(BeforeAt(cs), " "))

\* lines 1208, 1229-1233: the tokens of the line, the annotation set aside
Tokens(cs) ==
    LET line == lstrip(Stripped(cs), " ")
        rest == IF HasGivenCode(line) THEN SubSeq(line, 17, Len(line)) ELSE line
        s == split(rest)
    IN  [i \in 1..Len(s) |-> strip(s[i], ",")]

\* line 1235: the first token is a label
IsLabel(s) ==
    (s[1] # <<>> /\ Last(s[1]) = ":") \/ (Len(s) = 1 /\ is_num(s[1]))

\* lines 1236-1238: the label's name
LabelName(s) == IF s[1] # <<>> /\ Last(s[1]) = ":" THEN Front(s[1]) ELSE s[1]

\* lines 1256-1266 and 1275: the first `$` token of s (0 when none), its name
\* and offset, and s with the `$` tokens replaced by #0x0
SymIndex(s) ==
    IF \E i \in 1..Len(s) : s[i] # <<>> /\ s[i][1] = "$"
    THEN CHOOSE i \in 1..Len(s) :
            /\ s[i] # <<>> /\ s[i][1] = "$"
            /\ \A j \in 1..(i - 1) : s[j] = <<>> \/ s[j][1] # "$"
    ELSE 0

SymName(tok) ==
    LET body == Tail(tok)
    IN  Join(IF IndexOf(body, "+") = 0 THEN body
             ELSE SubSeq(body, 1, IndexOf(body, "+") - 1))

SymOffset(tok) ==
    LET body == Tail(tok)
    IN  IF IndexOf(body, "+") = 0 THEN Some(0)
        ELSE int(SubSeq(body, IndexOf(body, "+") + 1, Len(body)), 0)

ZeroedSyms(s) ==
    [i \in 1..Len(s) |->
        IF s[i] # <<>> /\ s[i][1] = "$" THEN <<"#", "0", "x", "0">> ELSE s[i]]

\* line 1283: reg(word) = int(word[1:], 16)
reg(tok) == int(Tail(tok), 16)

\* lines 1296-1297: int(word.strip("#"), 0); the range is checked by val_ok
val(tok) == int(strip(tok, "#"), 0)

\* the operands the handler of s[0] reads, as the fields of a Line; unread
\* fields are 0
ReadOperands(s) ==
    LET m == Join(s[1])
        n == Len(s)
        r == IF n >= 2 /\ s[2] # <<>> THEN reg(s[2]) ELSE None
        v == IF n >= 3 THEN val(s[3]) ELSE None
        one == IF n >= 2 THEN int(s[2], IF m = "slot" THEN 0 ELSE 10) ELSE None
    IN  CASE m \in {"mov", "movp"} /\ n = 3 ->
               [rw |-> IF s[2] = <<>> THEN "" ELSE s[2][1],
                r1 |-> IF r = None THEN 0 ELSE The(r),
                imm |-> IF v = None THEN 0 ELSE The(v), ts |-> "",
                bad |-> IF s[2] = <<>> THEN "IndexError: s[1][0]"
                        ELSE IF r = None \/ v = None THEN "ValueError: int()"
                        ELSE ""]
          [] m = "wait" /\ n = 2 /\ s[2] = <<"a", "l", "l">> ->
               [rw |-> "", r1 |-> 0, imm |-> 0, ts |-> "all", bad |-> ""]
          [] m \in {"wait", "slot", "!cs"} /\ n = 2 ->
               [rw |-> "", r1 |-> 0, imm |-> IF one = None THEN 0 ELSE The(one),
                ts |-> "", bad |-> IF one = None THEN "ValueError: int()" ELSE ""]
          [] OTHER -> [rw |-> "", r1 |-> 0, imm |-> 0, ts |-> "", bad |-> ""]

\* the line as the loop body sees it; a line that is blank once stripped has
\* the indent -1
Lex(cs) ==
    IF Stripped(cs) = <<>> THEN [indent |-> -1]
    ELSE
        LET line == Stripped(cs)
            indent == Len(line) - Len(lstrip(line, " "))
            all == Tokens(cs)
            lab == IsLabel(all)
            name == LabelName(all)
            s == IF lab THEN Tail(all) ELSE all
            lk == IF ~lab THEN "none" ELSE IF is_num(name) THEN "num" ELSE "sym"
            at == IF s = <<>> THEN 0 ELSE SymIndex(s)
            off == IF at = 0 THEN Some(0) ELSE SymOffset(s[at])
            o == IF s = <<>>
                 THEN [rw |-> "", r1 |-> 0, imm |-> 0, ts |-> "", bad |-> ""]
                 ELSE ReadOperands(ZeroedSyms(s))
        IN  [Line(indent, lk, IF lk = "num" THEN DigitsValue(name, 10) ELSE 0,
                  IF lk = "sym" THEN Join(name) ELSE "",
                  IF s = <<>> THEN "" ELSE Join(s[1]),
                  o.rw, o.r1, 0, o.imm, "", 0, o.ts)
             EXCEPT !.argc = Len(s),
                    !.sym = IF at = 0 THEN None
                            ELSE Some([name |-> SymName(s[at]),
                                       off |-> IF off = None THEN 0 ELSE The(off)]),
                    !.given = IF HasGivenCode(lstrip(line, " "))
                              THEN Some(GivenCode(lstrip(line, " "))) ELSE None,
                    !.bad = IF off = None THEN "ValueError: int()" ELSE o.bad]

----------------------------------------------------------------------------
(* Context.interpret, the body of the loop over the lines *)

\* a variant of Indentation that opens a Level at any deeper line
IndentationUnchecked(c, ln) ==
    LET opened == [PushLevel(c, ln.indent) EXCEPT
                      !.log = Append(@, LogEvent("open", c.nextId,
                                                 IF Len(c.levels) = 0 THEN -1
                                                 ELSE Last(c.levels), "", 0, 0))]
        c1 == IF c.old_indent = None THEN opened
              ELSE IF ln.indent = The(c.old_indent) THEN c
              ELSE IF ln.indent > The(c.old_indent)
                   THEN opened
                   ELSE pop_until(c, ln.indent)
    IN  IF ~Ok(c1) THEN c1
        ELSE [set_l(c1) EXCEPT !.old_indent = Some(ln.indent), !.is_call = FALSE]


\* lines 1208-1224: the indentation of the line against the previous line's
Indentation(c, ln) ==
    LET opened == [PushLevel(c, ln.indent) EXCEPT
                      !.log = Append(@, LogEvent("open", c.nextId,
                                                 IF Len(c.levels) = 0 THEN -1
                                                 ELSE Last(c.levels), "", 0, 0))]
        c1 == IF c.old_indent = None THEN opened
              ELSE IF ln.indent = The(c.old_indent) THEN c
              ELSE IF ln.indent > The(c.old_indent)
                   THEN (IF ~c.is_call THEN Fail(c, "AssertionError: is_call")
                         ELSE opened)
                   ELSE pop_until(c, ln.indent)
    IN  IF ~Ok(c1) THEN c1
        ELSE [set_l(c1) EXCEPT !.old_indent = Some(ln.indent), !.is_call = FALSE]

\* a variant of DefineLabel that keeps the references it has patched
DefineLabelKeepRefs(c, ln) ==
    IF ~Ok(c) THEN c
    ELSE IF ln.lk = "none"
    THEN (IF NumTokens(ln) = 1 /\ ~c.is_num_bound
          THEN Fail(c, "UnboundLocalError: is_num") ELSE c)
    ELSE IF ~c.is_num_bound THEN Fail(c, "UnboundLocalError: is_num")
    ELSE
        LET id == The(c.l)
            ofs == offset(c.heap[id])
        IN  IF ln.lk = "num"
            THEN
                LET c1 == IF Has(c.heap[id].num_refs, ln.ln)
                          THEN process_relocs(c, id, c.heap[id].num_refs[ln.ln], Some(ofs))
                          ELSE c
                IN  IF ~Ok(c1) THEN c1
                    ELSE [c1 EXCEPT !.heap[id].num_labels = Put(@, ln.ln, ofs),
                                    !.log = Append(@, LogEvent("def", id, ln.ln, "", ofs, ofs))]
            ELSE
                LET c1 == IF Has(c.heap[id].labels, ln.ls)
                          THEN Report(c, "reuse", "stdout") ELSE c
                IN  [c1 EXCEPT !.heap[id].labels = Put(@, ln.ls, ofs),
                               !.log = Append(@, LogEvent("symdef", id, 0, ln.ls, ofs, ofs))]


\* lines 1235-1253: the label at the head of the line
DefineLabel(c, ln) ==
    IF ~Ok(c) THEN c
    ELSE IF ln.lk = "none"
    THEN (IF NumTokens(ln) = 1 /\ ~c.is_num_bound
          THEN Fail(c, "UnboundLocalError: is_num") ELSE c)
    ELSE IF ~c.is_num_bound THEN Fail(c, "UnboundLocalError: is_num")
    ELSE
        LET id == The(c.l)
            ofs == offset(c.heap[id])
        IN  IF ln.lk = "num"
            THEN
                LET c1 == IF Has(c.heap[id].num_refs, ln.ln)
                          THEN process_relocs(c, id, c.heap[id].num_refs[ln.ln], Some(ofs))
                          ELSE c
                IN  IF ~Ok(c1) THEN c1
                    ELSE [c1 EXCEPT !.heap[id].num_refs = Del(@, ln.ln),
                                    !.heap[id].num_labels = Put(@, ln.ln, ofs),
                                    !.log = Append(@, LogEvent("def", id, ln.ln, "", ofs, ofs))]
            ELSE
                LET c1 == IF Has(c.heap[id].labels, ln.ls)
                          THEN Report(c, "reuse", "stdout") ELSE c
                IN  [c1 EXCEPT !.heap[id].labels = Put(@, ln.ls, ofs),
                               !.log = Append(@, LogEvent("symdef", id, 0, ln.ls, ofs, ofs))]

\* line 1734: self.l.buffer.append(code)
Emit(c, w) == [c EXCEPT !.heap[The(c.l)].buffer = Append(@, w)]

\* lines 1729-1734: `if given_code and code != given_code` prints the mismatch,
\* then the computed word is appended; an annotation of 0 is falsy
EmitCode(c, ln, code) ==
    LET told == ln.given # None /\ The(ln.given) # Num(0) /\ code # The(ln.given)
    IN  Emit(IF told THEN Report(c, "mismatch", "stdout") ELSE c, code)

\* a variant of SymOperand that records every operand in the full-address list
SymOperandOneList(c, ln) ==
    IF ~Ok(c) \/ ln.sym = None THEN c
    ELSE
        LET o == The(ln.sym)
        IN  IF o.name # "." /\ ~Has(c.allocs, o.name) THEN Fail(c, "KeyError: allocs[name]")
            ELSE [c EXCEPT !.reloc =
                     Append(@, <<The(c.l), offset(CurLevel(c)),
                                 IF o.name = "." THEN The(c.l) ELSE c.allocs[o.name].id,
                                 o.off>>)]

\* lines 1255-1275: a symbolic operand is recorded as a relocation at the
\* offset the line's first word will have, and becomes `#0x0`
SymOperand(c, ln) ==
    IF ~Ok(c) \/ ln.sym = None THEN c
    ELSE
        LET o == The(ln.sym)
            entry(buf) == <<The(c.l), offset(CurLevel(c)), buf, o.off>>
        IN  IF o.name # "." /\ ~Has(c.allocs, o.name) THEN Fail(c, "KeyError: allocs[name]")
            ELSE
                LET buf == IF o.name = "." THEN The(c.l) ELSE c.allocs[o.name].id
                IN  IF ln.m = "movp"
                    THEN [c EXCEPT !.reloc_split = Append(@, entry(buf))]
                    ELSE [c EXCEPT !.reloc = Append(@, entry(buf))]

\* lines 1286-1298: val(word) asserts value < (1 << 48)
val_ok(v) == v.hi <= 0

\* lines 1302-1307: !cs
DoCs(c, ln) ==
    LET c1 == flush_exe(c)
    IN  IF ~Ok(c1) THEN c1
        ELSE [c1 EXCEPT !.last_exe = Some(Len(c1.exe)),
                        !.exe = Append(@, <<"exe", ln.imm>>)]

\* the steps of the execution script that are tuples; `!cs` and `!raw` steps
\* are lists, which `+=` can extend
IsTuple(e) == e # <<>> /\ e[1] \in {"dump", "heatmap", "memset"}

\* lines 1308-1313: !parallel
DoParallel(c, ln) ==
    IF ln.argc # 2 THEN Fail(c, "AssertionError: len(s) == 2")
    ELSE
        LET c1 == flush_exe(c)
        IN  IF ~Ok(c1) THEN c1
            ELSE IF Len(c1.exe) = 0 THEN Fail(c1, "IndexError: exe[-1]")
            ELSE IF IsTuple(Last(c1.exe))
            THEN Fail(c1, "TypeError: can only concatenate tuple")
            ELSE [c1 EXCEPT !.last_exe = Some(Len(c1.exe) - 1),
                            !.exe[Len(c1.exe)] = Append(@, ln.args[1])]

\* class Alloc(Buffer): Buffer.__init__ takes the next id
Alloc(id, size, flags) == [id |-> id, size |-> size, flags |-> flags, buffer |-> <<>>]

\* lines 1314-1320: !alloc binds the name to a new Alloc
DoAlloc(c, ln) ==
    IF ln.argc \notin {3, 4} THEN Fail(c, "AssertionError: len(s) == 3 or len(s) == 4")
    ELSE [c EXCEPT
            !.allocs = Put(@, ln.args[1],
                           Alloc(c.nextId, ln.args[2],
                                 IF ln.argc = 4 THEN ln.args[3] ELSE 10255)),
            !.nextId = @ + 1,
            !.log = Append(@, [k |-> "alloc", name |-> ln.args[1], id |-> c.nextId])]

\* lines 1321-1335: !dump, !dump64, !fdump, !delta, !tiler
DumpMode(m) ==
    CASE m = "!dump" -> "hex"
      [] m = "!dump64" -> "hex64"
      [] m = "!fdump" -> "filehex"
      [] m = "!delta" -> "delta"
      [] m = "!tiler" -> "tiler"

DoDump(c, ln) ==
    IF ln.argc # 4 THEN Fail(c, "AssertionError: len(s) == 4")
    ELSE IF ~Has(c.allocs, ln.args[1]) THEN Fail(c, "KeyError: allocs[alloc_id]")
    ELSE [c EXCEPT !.exe = Append(@, <<"dump", c.allocs[ln.args[1]].id, ln.args[2],
                                       ln.args[3], DumpMode(ln.m)>>)]

\* lines 1336-1350: !heatmap
DoHeatmap(c, ln) ==
    IF ln.argc # 10 THEN Fail(c, "AssertionError: len(s) == 10")
    ELSE IF ~Has(c.allocs, ln.args[1]) THEN Fail(c, "KeyError: allocs[alloc_id]")
    ELSE [c EXCEPT !.exe = Append(@, <<"heatmap", c.allocs[ln.args[1]].id, ln.args[2],
                                       ln.args[3], ln.args[4], ln.args[5], ln.args[6]>>)]

\* lines 1351-1359: !memset
DoMemset(c, ln) ==
    IF ln.argc # 5 THEN Fail(c, "AssertionError: len(s) == 5")
    ELSE IF ~Has(c.allocs, ln.args[1]) THEN Fail(c, "KeyError: allocs[alloc_id]")
    ELSE [c EXCEPT !.exe = Append(@, <<"memset", c.allocs[ln.args[1]].id, ln.args[2],
                                       ln.args[3], ln.args[4]>>)]

\* a variant of DoRaw that adds no step
DoRawNoStep(c, ln) == c

\* lines 1360-1362: !raw
DoRaw(c, ln) == [c EXCEPT !.exe = Append(@, ln.args)]

\* lines 1413 and 1420-1424: mov with an immediate
DoMov(c, ln) ==
    IF ln.argc < 3 THEN Fail(c, "IndexError: s[2]")
    ELSE IF ln.argc # 3 THEN Fail(c, "AssertionError: len(s) == 3")
    ELSE IF ~val_ok(ln.val) THEN Fail(c, "AssertionError: value < (1 << 48)")
    ELSE EmitCode(c, ln, Code(IF ln.rw = "x" THEN 1 ELSE 2, ln.r1, ln.val))

\* lines 1363-1373: movp appends the two halves of the immediate itself
DoMovp(c, ln) ==
    IF ln.argc # 3 THEN Fail(c, "AssertionError: len(s) == 3")
    ELSE IF ln.rw # "x" THEN Fail(c, "AssertionError: s[1][0] == x")
    ELSE Emit(Emit(c, Code(2, ln.r1, Word(0, 0, ln.val.v1, ln.val.v0))),
              Code(2, ln.r1 + 1, Word(0, 0, ln.val.hi % Lane, ln.val.v2)))

\* lines 1425-1431: add; the branch at 1475-1485 is never reached
DoAdd(c, ln) ==
    IF ln.argc # 4 THEN Fail(c, "AssertionError: len(s) == 4")
    ELSE IF ln.rw \notin {"w", "x"} THEN Fail(c, "AssertionError: s[1][0] in wx")
    ELSE IF ~val_ok(ln.val) THEN Fail(c, "AssertionError: value < (1 << 48)")
    ELSE EmitCode(c, ln, Code(IF ln.rw = "w" THEN 16 ELSE 17, ln.r1,
                              Word((ln.r2 * 256) \div Lane, (ln.r2 * 256) % Lane,
                                   ln.val.v1, ln.val.v0)))

\* lines 1461-1469: wait; value = (1 << N) << 16, or 255 << 16 for `all`
DoWait(c, ln) ==
    IF ln.argc # 2 THEN Fail(c, "AssertionError: len(s) == 2")
    ELSE IF ln.ts # "all" /\ ln.imm < 0 THEN Fail(c, "ValueError: negative shift count")
    ELSE EmitCode(c, ln, Code(3, 0, IF ln.ts = "all" THEN Word(0, 0, 255, 0)
                                    ELSE Bit(ln.imm + 16)))

\* lines 1470-1474: slot; value = int(s[1], 0)
DoSlot(c, ln) ==
    IF ln.argc # 2 THEN Fail(c, "AssertionError: len(s) == 2")
    ELSE EmitCode(c, ln, Code(23, 0, ln.val))

\* lines 1486-1520: idvs; value = (unk << 32) | (index << 8) | mode, for an
\* unk below 2^31
DoIdvs(c, ln) ==
    IF ln.argc # 6 THEN Fail(c, "AssertionError: len(s) == 6")
    ELSE IF ~val_ok(ln.val) THEN Fail(c, "AssertionError: value < (1 << 48)")
    ELSE EmitCode(c, ln, Code(6, 0, Word(ln.imm \div Lane, ln.imm % Lane, 0,
                                         BitOr(ln.r2 * 256, ln.r1))))

\* lines 1720-1727: any other mnemonic is reported and becomes the word 0
DoUnknown(c, ln) == EmitCode(Report(c, "unknown", "stderr"), ln, Code(0, 0, Num(0)))

CallAddrTag == 256
CallLenTag == 512

\* lines 1690-1695: the scan of the two words before the call
CallScan(lvl, num, target) ==
    LET cur == Len(lvl.buffer)
        i1 == PyIndex(cur, cur - 2)
        i2 == PyIndex(cur, cur - 1)
        a1 == IF Top16(lvl.buffer[i1]) = CallAddrTag + target
              THEN Some(cur - 2) ELSE lvl.call_addr_offset
        n1 == IF Top16(lvl.buffer[i1]) = CallLenTag + num
              THEN Some(cur - 2) ELSE lvl.call_len_offset
        a2 == IF Top16(lvl.buffer[i2]) = CallAddrTag + target
              THEN Some(cur - 1) ELSE a1
        n2 == IF Top16(lvl.buffer[i2]) = CallLenTag + num
              THEN Some(cur - 1) ELSE n1
    IN  [lvl EXCEPT !.call_addr_offset = a2, !.call_len_offset = n2]

\* lines 1677-1699: call and tailcall
DoCall(c, ln) ==
    LET id == The(c.l)
        lvl == c.heap[id]
        cur == Len(lvl.buffer)
    IN  IF PyIndex(cur, cur - 2) = 0 THEN Fail(c, "IndexError: l.buffer[ofs]")
        ELSE
            LET scanned == CallScan(lvl, ln.r1, ln.r2)
            IN  IF scanned.call_addr_offset = None
                THEN Fail(c, "AssertionError: call_addr_offset")
                ELSE IF scanned.call_len_offset = None
                THEN Fail(c, "AssertionError: call_len_offset")
                ELSE EmitCode([c EXCEPT !.heap[id] = scanned, !.is_call = TRUE,
                                        !.log = Append(@, LogEvent(ln.m, id, ln.r1, "",
                                                                   offset(lvl), ln.r2))],
                              ln,
                              Encode(IF ln.m = "call" THEN 32 ELSE 33, 0,
                                     ln.r2 * 256 + ln.r1, 0, 0))

\* cmd 22, value = (src << 40) | (ops << 28) | to_int16(offset); ops is 6 for b
BranchWord(src, ops, disp) == Encode(22, 0, src * 256, ops * 4096, to_int16(disp))

\* lines 1595-1638: b
DoBranch(c, ln) ==
    LET id == The(c.l)
        lvl == c.heap[id]
        here == offset(lvl)
    IN  IF ln.tk = "nb" /\ ~Has(lvl.num_labels, ln.tn)
        THEN Fail(c, "AssertionError: label in num_labels")
        ELSE
            LET disp == CASE ln.tk = "skip" -> ln.tn
                          [] ln.tk = "back" -> (-1) - ln.tn
                          [] ln.tk = "nb" -> resolve_rel(lvl.num_labels[ln.tn], here)
                          [] OTHER -> 0
                ref == [n |-> ln.tn, s |-> ln.ts, ofs |-> here]
                c1 == CASE ln.tk = "nf" ->
                            [c EXCEPT !.heap[id].num_refs =
                                Put(@, ln.tn, (IF Has(@, ln.tn) THEN @[ln.tn] ELSE <<>>)
                                              \o <<ref>>)]
                        [] ln.tk = "sym" ->
                            [c EXCEPT !.heap[id].label_refs = Append(@, ref)]
                        [] OTHER -> c
                to == IF ln.tk = "nb" THEN lvl.num_labels[ln.tn] ELSE 0
            IN  IF ~to_int16_ok(disp) THEN Fail(c, "AssertionError: to_int16")
                ELSE EmitCode([c1 EXCEPT !.log = Append(@, LogEvent(ln.tk, id, ln.tn, ln.ts,
                                                                    here, to))],
                              ln, BranchWord(ln.r1, 6, disp))

\* lines 1300-1736: the dispatch on the mnemonic
Dispatch(c, ln) ==
    IF ~Ok(c) THEN c
    ELSE IF ln.bad # "" THEN Fail(c, ln.bad)
    ELSE CASE ln.m = "!cs" -> DoCs(c, ln)
           [] ln.m = "!parallel" -> DoParallel(c, ln)
           [] ln.m = "!alloc" -> DoAlloc(c, ln)
           [] ln.m \in {"!dump", "!dump64", "!fdump", "!delta", "!tiler"} -> DoDump(c, ln)
           [] ln.m = "!heatmap" -> DoHeatmap(c, ln)
           [] ln.m = "!memset" -> DoMemset(c, ln)
           [] ln.m = "!raw" -> DoRaw(c, ln)
           [] ln.m = "movp" -> DoMovp(c, ln)
           [] ln.m = "nop" -> EmitCode(c, ln, Encode(0, 0, 0, 0, 0))
           [] ln.m = "mov" -> DoMov(c, ln)
           [] ln.m = "add" -> DoAdd(c, ln)
           [] ln.m = "wait" -> DoWait(c, ln)
           [] ln.m = "slot" -> DoSlot(c, ln)
           [] ln.m = "idvs" -> DoIdvs(c, ln)
           [] ln.m \in {"call", "tailcall"} -> DoCall(c, ln)
           [] ln.m = "b" -> DoBranch(c, ln)
           [] OTHER -> DoUnknown(c, ln)

\* one pass of the loop body for a non-blank line
LineResult(c, ln) ==
    LET c1 == DefineLabel(Indentation(c, ln), ln)
    IN  IF ~Ok(c1) \/ ln.m = "" THEN c1
        ELSE Dispatch([SymOperand(c1, ln) EXCEPT !.is_num_bound = TRUE], ln)

----------------------------------------------------------------------------
(* Context.add_descriptors.  A table entry is [k |-> "int", v |-> n] for a  *)
(* literal, [k |-> "ref", alloc |-> name, offset |-> n] for a name (offset  *)
(* 0) or a (name, offset) pair.                                             *)

DescInt(n) == [k |-> "int", v |-> n]
DescRef(name, off) == [k |-> "ref", alloc |-> name, offset |-> off]

\* line 1192: x | (y << 32) for two 32-bit slots
SlotPair(x, y) == Word(y \div Lane, y % Lane, x \div Lane, x % Lane)

\* lines 1191-1192: zip(it, it) over one iterator takes the slots two by two
\* and stops when fewer than two are left
RECURSIVE ZipPairs(_)
ZipPairs(buf) ==
    IF Len(buf) < 2 THEN <<>>
    ELSE <<SlotPair(buf[1], buf[2])>> \o ZipPairs(SubSeq(buf, 3, Len(buf)))

\* lines 1176-1189: the loop over the entries of one table, from the slots
\* gathered so far
RECURSIVE DescSlots(_, _, _, _)
DescSlots(c, id, words, buf) ==
    IF ~Ok(c) \/ words = <<>> THEN [c |-> c, buf |-> buf]
    ELSE
        LET w == Head(words)
        IN  IF w.k = "int" THEN DescSlots(c, id, Tail(words), Append(buf, w.v))
            ELSE IF ~Has(c.allocs, w.alloc)
            THEN [c |-> Fail(c, "KeyError: allocs[alloc]"), buf |-> buf]
            ELSE DescSlots([c EXCEPT !.reloc =
                               Append(@, <<id, Len(buf) * 4, c.allocs[w.alloc].id,
                                           w.offset>>)],
                           id, Tail(words), buf \o <<0, 0>>)

\* lines 1172-1194: the body of the loop over the tables, for the table d
add_descriptors(c, d, words) ==
    LET id == c.nextId
        r == DescSlots([c EXCEPT !.nextId = @ + 1], id, words, <<>>)
        buffer == ZipPairs(r.buf)
    IN  IF ~Ok(r.c) THEN r.c
        ELSE [r.c EXCEPT
                !.allocs = Put(@, d, [id |-> id, size |-> Len(buffer) * 8,
                                      flags |-> 10255, buffer |-> buffer]),
                !.log = Append(@, [k |-> "desc", name |-> d, id |-> id,
                                   words |-> words])]

\* lines 1742-1743: after the last line
EndResult(c) ==
    IF Len(c.levels) = 0 THEN Fail(c, "IndexError: levels[0]")
    ELSE flush_exe(pop_until(c, c.heap[c.levels[1]].indent))

----------------------------------------------------------------------------
(* The state machine *)

\* Context() followed by add_memory of a registry with the one region bufa
Init ==
    /\ allocs = ("bufa" :> [id |-> 0, size |-> 4096, flags |-> 10255, buffer |-> <<>>])
    /\ levels = <<>>
    /\ l = None
    /\ completed = <<>>
    /\ heap = EmptyDict
    /\ reloc = <<>>
    /\ reloc_split = <<>>
    /\ exe = <<>>
    /\ last_exe = None
    /\ is_call = FALSE
    /\ nextId = 1
    /\ old_indent = None
    /\ is_num_bound = FALSE
    /\ status = "running"
    /\ lineno = 0
    /\ last_line = None
    /\ abort_reason = ""
    /\ closes = <<>>
    /\ log = <<>>
    /\ reports = <<>>
    /\ text = <<>>
    /\ first_out = None

\* the Context after a handler that raised nothing
Commit(c) ==
    /\ allocs' = c.allocs
    /\ levels' = c.levels
    /\ l' = c.l
    /\ completed' = c.completed
    /\ heap' = c.heap
    /\ reloc' = c.reloc
    /\ reloc_split' = c.reloc_split
    /\ exe' = c.exe
    /\ last_exe' = c.last_exe
    /\ is_call' = c.is_call
    /\ nextId' = c.nextId
    /\ old_indent' = c.old_indent
    /\ is_num_bound' = c.is_num_bound
    /\ closes' = c.closes
    /\ log' = c.log

\* an exception leaves interpret: nothing is serialized and the Context is lost;
\* what was printed before it stays printed (the callers set reports)
Abort(why) ==
    /\ status' = "aborted"
    /\ abort_reason' = why
    /\ UNCHANGED <<allocs, levels, l, completed, heap, reloc, reloc_split, exe,
                   last_exe, is_call, nextId, old_indent, is_num_bound, closes, log>>

\* a line that is empty once its comment is stripped (lines 1204-1206)
BlankLine ==
    /\ status = "running"
    /\ lineno' = lineno + 1
    /\ UNCHANGED <<allocs, levels, l, completed, heap, reloc, reloc_split, exe,
                   last_exe, is_call, nextId, old_indent, is_num_bound, status,
                   last_line, abort_reason, closes, log, reports, text, first_out>>

\* one non-blank line goes through the loop body
RunLine(ln) ==
    /\ status = "running"
    /\ lineno' = lineno + 1
    /\ last_line' = Some([no |-> lineno + 1, line |-> ln])
    /\ LET c == LineResult(Ctx, ln)
       IN  /\ reports' = c.reports
           /\ IF Ok(c)
              THEN Commit(c) /\ UNCHANGED <<status, abort_reason>>
              ELSE Abort(c.err)

\* one non-blank line of a text given line by line
InterpretLine(ln) == RunLine(ln) /\ UNCHANGED <<text, first_out>>

\* the text is exhausted: lines 1742-1743, then str(c) in interpret(text)
EndOfInput ==
    /\ status = "running"
    /\ LET c == EndResult(Ctx)
       IN  /\ reports' = c.reports
           /\ IF Ok(c)
              THEN Commit(c) /\ status' = "done" /\ UNCHANGED abort_reason
              ELSE Abort(c.err)
    /\ UNCHANGED <<lineno, last_line, text, first_out>>

----------------------------------------------------------------------------
(* Spec: call linking and scopes.  The text is drawn from CallLines.        *)

Indents == {0, 1, 2}

CallLines ==
    UNION { { Nop(i), Mov(i, "x", 72, 9), Mov(i, "w", 74, 5),
              Call(i, "call", 74, 72), Call(i, "tailcall", 74, 72),
              Cs(i, 0), SymLabel(i, "a") } : i \in Indents }

Next ==
    \/ \E ln \in CallLines : lineno < MaxLines /\ InterpretLine(ln)
    \/ lineno < MaxLines /\ BlankLine
    \/ EndOfInput

Spec == Init /\ [][Next]_vars

----------------------------------------------------------------------------
(* SpecLabel: labels and branches, in the top Level and in nested Levels.   *)

LabelIndents == {0, 1}

LabelLines ==
    UNION { { Mov(i, "x", 72, 9), Mov(i, "w", 74, 5), Call(i, "call", 74, 72),
              NumLabel(i, 1), Branch(i, "nb", 1, ""), Branch(i, "nf", 1, ""),
              SymLabel(i, "a"), Branch(i, "sym", 0, "a") } : i \in LabelIndents }
    \cup { Cs(0, 0) }

NextLabel ==
    \/ \E ln \in LabelLines : lineno < MaxLabelLines /\ InterpretLine(ln)
    \/ EndOfInput

SpecLabel == Init /\ [][NextLabel]_vars

----------------------------------------------------------------------------
(* SpecBranch: branches with an explicit displacement, `b skip N` and       *)
(* `b back N`, around the ends of the signed 16-bit range.                  *)

Displacements == {0, 1, 32766, 32767, 32768, 32769, 36767, 36768}

BranchLines ==
    { Branch(0, k, n, "") : k \in {"skip", "back"}, n \in Displacements }

NextBranch ==
    \/ \E ln \in BranchLines : lineno < MaxBranchLines /\ InterpretLine(ln)
    \/ EndOfInput

SpecBranch == Init /\ [][NextBranch]_vars

----------------------------------------------------------------------------
(* SpecInsn: single instructions with immediates around the field widths,   *)
(* symbolic operands, annotations and an unknown mnemonic, at indentation 0.*)

\* 2^31 - 1, 2^31, 2^32 - 1, 2^32, 2^32 + 5, 2^48 - 1, 2^48, -2^31, -2^31 - 1
Immediates ==
    { Num(1), Num(-1),
      Word(0, 0, 32767, 65535), Word(0, 0, 32768, 0), Word(0, 0, 65535, 65535),
      Word(0, 1, 0, 0), Word(0, 1, 0, 5), Word(0, 65535, 65535, 65535),
      Word(1, 0, 0, 0), Word(-1, 65535, 32768, 0), Word(-1, 65535, 32767, 65535) }

Operands == { <<"bufa", 0>>, <<"bufa", 16>>, <<".", 0>>, <<".", 8>>, <<"nope", 0>> }

\* annotations: zero, the word of `mov x10, 1`, and another word
Annotations == { Num(0), Encode(1, 16, 0, 0, 1), Encode(1, 16, 0, 0, 2) }

InsnLines ==
    { WithVal(Mov(0, "x", 16, 0), v) : v \in Immediates }
    \cup { WithVal(Add(0, "x", 16, 16), v) : v \in Immediates }
    \cup { WithVal(Slot(0), v) : v \in {Num(3), Num(-1), Word(1, 0, 0, 0)} }
    \cup { Mov(0, "x", 511, 1), Wait(0, 0), Wait(0, 47), Wait(0, 48), WaitAll(0),
           Idvs(0, 0, 8, 3), Idvs(0, 65536, 8, 3),
           Unknown(0, "frobnicate"), Cs(0, 0), WithGiven(Cs(0, 0), Num(1)),
           WithVal(Movp(0, 16), Word(0, 1, 0, 5)) }
    \cup { WithSym(Mov(0, "x", 16, 0), o[1], o[2]) : o \in Operands }
    \cup { WithSym(Movp(0, 16), o[1], o[2]) : o \in Operands }
    \cup { WithGiven(Mov(0, "x", 16, 1), g) : g \in Annotations }
    \cup { WithGiven(Unknown(0, "frobnicate"), g) : g \in Annotations }

NextInsn ==
    \/ \E ln \in InsnLines : lineno < MaxInsnLines /\ InterpretLine(ln)
    \/ EndOfInput

SpecInsn == Init /\ [][NextInsn]_vars

----------------------------------------------------------------------------
(* SpecDesc: the registry.  interpret(text) adds the descriptor tables to   *)
(* the Context before the first line of the text.                           *)

DescNames == <<"desca", "descb">>

DescEntries ==
    { DescInt(1), DescInt(65538), DescRef("bufa", 0), DescRef("bufa", 8),
      DescRef("desca", 0), DescRef("nope", 0) }

RECURSIVE Tables(_)
Tables(n) ==
    IF n = 0 THEN { <<>> }
    ELSE Tables(n - 1) \cup
         { Append(t, e) : t \in { u \in Tables(n - 1) : Len(u) = n - 1 },
                          e \in DescEntries }

\* the tables added so far
Descs == { i \in 1..Len(log) : log[i].k = "desc" }

\* lines 1171-1194 and 1757: one more table of the registry goes through
\* add_descriptors, before interpret reads the text
AddDescriptor(words) ==
    /\ status = "running"
    /\ lineno = 0
    /\ Cardinality(Descs) < MaxTables
    /\ Cardinality(Descs) < Len(DescNames)
    /\ LET c == add_descriptors(Ctx, DescNames[Cardinality(Descs) + 1], words)
       IN  IF Ok(c)
           THEN Commit(c) /\ UNCHANGED <<status, abort_reason>>
           ELSE Abort(c.err)
    /\ UNCHANGED <<lineno, last_line, reports, text, first_out>>

DescLines == { Nop(0), WithSym(Mov(0, "x", 16, 0), "desca", 4) }

NextDesc ==
    \/ \E words \in Tables(MaxTableLen) : AddDescriptor(words)
    \/ \E ln \in DescLines : lineno < MaxDescLines /\ InterpretLine(ln)
    \/ EndOfInput

SpecDesc == Init /\ [][NextDesc]_vars

----------------------------------------------------------------------------
(* SpecExe: directives and the execution script.  The registry declares one *)
(* memory region, bufa, as a size or as a (size, flags) pair; the text is   *)
(* kept, line by line, in text.                                             *)

\* a declaration of the registry: memory[m] is an int or a (size, flags) pair
MemInt(size) == [k |-> "int", size |-> size]
MemPair(size, flags) == [k |-> "pair", size |-> size, flags |-> flags]

\* a variant of Region that gives every region the default flags
RegionDefaultFlags(f, id) == Alloc(id, f.size, 10255)

\* lines 1164-1169: the Alloc add_memory makes of the declaration f
Region(f, id) ==
    IF f.k = "int" THEN Alloc(id, f.size, 10255) ELSE Alloc(id, f.size, f.flags)

Declarations == { MemInt(4096), MemPair(4096, 10255), MemPair(8192, 532495) }

\* the names of the registry, one after the other.  The order the dict keeps
\* them in is not modelled: the lines of the registry come in some order.
AllocNames ==
    CHOOSE f \in [1..Cardinality(DOMAIN allocs) -> DOMAIN allocs] :
        \A i, j \in 1..Cardinality(DOMAIN allocs) : i # j => f[i] # f[j]

\* lines 1075-1077, 1045-1047, 1079-1081: the lines Alloc.__repr__,
\* Level.__repr__ and fmt_reloc print, each number kept as the number
AllocLine(a) == <<"buffer", a.id, a.size, a.flags, a.buffer>>
LevelLine(id) == <<"buffer", id, offset(heap[id]), 8207, heap[id].buffer>>
RelocLine(name, r) == <<name, r[1], r[2], r[3], r[4]>>

\* a variant of Repr that prints the execution script before the relocations
ReprScriptFirst ==
    [i \in 1..Cardinality(DOMAIN allocs) |-> AllocLine(allocs[AllocNames[i]])]
    \o [i \in 1..Len(completed) |-> LevelLine(completed[i])]
    \o exe
    \o [i \in 1..Len(reloc) |-> RelocLine("reloc", reloc[i])]
    \o [i \in 1..Len(reloc_split) |-> RelocLine("relsplit", reloc_split[i])]

\* lines 1745-1752: Context.__repr__, the lines of the serialized output; a
\* step of the execution script is printed token by token (fmt_exe)
Repr ==
    [i \in 1..Cardinality(DOMAIN allocs) |-> AllocLine(allocs[AllocNames[i]])]
    \o [i \in 1..Len(completed) |-> LevelLine(completed[i])]
    \o [i \in 1..Len(reloc) |-> RelocLine("reloc", reloc[i])]
    \o [i \in 1..Len(reloc_split) |-> RelocLine("relsplit", reloc_split[i])]
    \o exe

InitExe ==
    /\ \E f \in Declarations :
          /\ allocs = ("bufa" :> Region(f, 0))
          /\ log = << [k |-> "mem", name |-> "bufa", id |-> 0, decl |-> f] >>
    /\ levels = <<>>
    /\ l = None
    /\ completed = <<>>
    /\ heap = EmptyDict
    /\ reloc = <<>>
    /\ reloc_split = <<>>
    /\ exe = <<>>
    /\ last_exe = None
    /\ is_call = FALSE
    /\ nextId = 1
    /\ old_indent = None
    /\ is_num_bound = FALSE
    /\ status = "running"
    /\ lineno = 0
    /\ last_line = None
    /\ abort_reason = ""
    /\ closes = <<>>
    /\ reports = <<>>
    /\ text = <<>>
    /\ first_out = None

ExeLines ==
    { Cs(0, 0), Parallel(0, 2), Mov(0, "x", 16, 1),
      WithSym(Mov(0, "x", 16, 0), "bufa", 0), WithSym(Movp(0, 16), "bufa", 8),
      AllocDir(0, "bufa", 64), AllocFlags(0, "bufb", 128, 15),
      Dump(0, "!dump", "bufa", 0, 8), Dump(0, "!tiler", "bufb", 0, 8),
      Heatmap(0, "bufa", 0, 64, 8, 4, 16), Memset(0, "bufa", 0, 255, 64),
      Raw(0, <<"go", "1">>) }

\* one line of the text goes through the loop and is kept
ExeLine(ln) ==
    /\ RunLine(ln)
    /\ text' = Append(text, ln)
    /\ UNCHANGED first_out

NextExe ==
    \/ \E ln \in ExeLines : lineno < MaxExeLines /\ ExeLine(ln)
    \/ EndOfInput

SpecExe == InitExe /\ [][NextExe]_vars

----------------------------------------------------------------------------
(* SpecText: the text is given as characters, against a registry with one   *)
(* memory region, and interpret(text) is called a second time with the same *)
(* text and the same registry once the first call has returned.             *)

\* the names the registry may give its region; add_memory keeps the key as
\* it is written (line 1169)
RegionNames == {"bufA", "bufa"}

\* lines 1162-1169: add_memory of a registry {name: 4096}
add_memory(name, id) ==
    (name :> [id |-> id, size |-> 4096, flags |-> 10255, buffer |-> <<>>])

MovCommaBufA == << "m", "o", "v", " ", "x", "1", "0", ",", "$", "b", "u", "f", "A" >>
MovBufA == << "m", "o", "v", " ", "x", "1", "0", ",", " ", "$", "b", "u", "f", "A" >>
MovBufa == << "m", "o", "v", " ", "x", "1", "0", ",", " ", "$", "b", "u", "f", "a" >>
MovHex == << "a", ":", " ", "M", "O", "V", " ", "w", "1", "f", ",", " ", "#", "0", "x", "1",
             "0", " ", "@", "c" >>
MovBad == << "m", "o", "v", " ", "x", "1", "0", ",", " ", "z", "z" >>
Wait0 == << "w", "a", "i", "t", " ", "0" >>
Cs0 == << "!", "c", "s", " ", "0" >>
Comment == << " ", "@", " ", "c" >>
Annotated == << "0", "1", "1", "0", "0", "0", "0", "0", "0", "0", "0", "0", "0", "0", "0",
                "2", " ", "m", "o", "v", " ", "x", "1", "0", ",", " ", "1" >>

TextLines ==
    { MovCommaBufA, MovBufA, MovBufa, MovHex, MovBad, Wait0, Cs0, Comment, Annotated }

\* lines 1745-1752: str(c), the serialized output.  Each printed number is
\* kept as the number, in the order of the print.
Output ==
    [allocs |-> { <<n, allocs[n].id, allocs[n].size, allocs[n].flags, allocs[n].buffer>> :
                    n \in DOMAIN allocs },
     completed |-> [i \in 1..Len(completed) |->
                      <<completed[i], offset(heap[completed[i]]),
                        heap[completed[i]].buffer>>],
     reloc |-> reloc, reloc_split |-> reloc_split, exe |-> exe]

InitText ==
    /\ \E name \in RegionNames : allocs = add_memory(name, 0)
    /\ levels = <<>>
    /\ l = None
    /\ completed = <<>>
    /\ heap = EmptyDict
    /\ reloc = <<>>
    /\ reloc_split = <<>>
    /\ exe = <<>>
    /\ last_exe = None
    /\ is_call = FALSE
    /\ nextId = 1
    /\ old_indent = None
    /\ is_num_bound = FALSE
    /\ status = "running"
    /\ lineno = 0
    /\ last_line = None
    /\ abort_reason = ""
    /\ closes = <<>>
    /\ log = <<>>
    /\ reports = <<>>
    /\ text = <<>>
    /\ first_out = None

\* one raw line goes through the loop
TextLine(cs) ==
    IF Lex(cs).indent < 0
    THEN /\ status = "running"
         /\ lineno' = lineno + 1
         /\ UNCHANGED <<allocs, levels, l, completed, heap, reloc, reloc_split, exe,
                        last_exe, is_call, nextId, old_indent, is_num_bound, status,
                        last_line, abort_reason, closes, log, reports>>
    ELSE RunLine(Lex(cs))

\* the first call reads a new line of its text
ReadLine(cs) ==
    /\ first_out = None
    /\ lineno < MaxTextLines
    /\ TextLine(cs)
    /\ text' = Append(text, cs)
    /\ UNCHANGED first_out

\* the second call reads the next line of the same text
ReadAgain ==
    /\ first_out # None
    /\ lineno < Len(text)
    /\ TextLine(text[lineno + 1])
    /\ UNCHANGED <<text, first_out>>

\* the text of the running call is exhausted
EndOfText ==
    /\ first_out # None => lineno = Len(text)
    /\ EndOfInput

\* lines 1754-1761: interpret(text) has returned its output and is called
\* again: a new Context, the same registry, the same text.  Buffer.id is a
\* class attribute and keeps its value.
SecondCall ==
    /\ status = "done"
    /\ first_out = None
    /\ first_out' = Some(Output)
    /\ \E name \in DOMAIN allocs : allocs' = add_memory(name, nextId)
    /\ nextId' = nextId + 1
    /\ levels' = <<>>
    /\ l' = None
    /\ completed' = <<>>
    /\ heap' = EmptyDict
    /\ reloc' = <<>>
    /\ reloc_split' = <<>>
    /\ exe' = <<>>
    /\ last_exe' = None
    /\ is_call' = FALSE
    /\ old_indent' = None
    /\ is_num_bound' = FALSE
    /\ status' = "running"
    /\ lineno' = 0
    /\ last_line' = None
    /\ abort_reason' = ""
    /\ closes' = <<>>
    /\ log' = <<>>
    /\ reports' = <<>>
    /\ UNCHANGED text

NextText ==
    \/ \E cs \in TextLines : ReadLine(cs)
    \/ ReadAgain
    \/ EndOfText
    \/ SecondCall

SpecText == InitText /\ [][NextText]_vars

----------------------------------------------------------------------------
(* SpecRel: a branch and its label any distance apart.  The run starts in   *)
(* the state the assembler is in after a prepared text:                     *)
(*   forward   w lines `mov x48, 9`, then `b 1f`, then d lines `mov x48, 9` *)
(*             (the next line `1:` patches the branch, d words ahead);      *)
(*   backward  w lines `mov x48, 9`, then `1:`, then d lines `mov x48, 9`   *)
(*             (the next line `b 1b` is encoded at once, d + 1 words back). *)

Distances == {0, 1, 32766, 32767, 32768, 36767, 36768}

Filler == Encode(1, 72, 0, 0, 9)

PreparedLevel(w, d, forward) ==
    [NewLevel(0) EXCEPT
        !.buffer = [i \in 1..(w + d + (IF forward THEN 1 ELSE 0)) |->
                        IF forward /\ i = w + 1 THEN BranchWord(0, 6, 0) ELSE Filler],
        !.num_refs = IF forward THEN (1 :> <<[n |-> 1, s |-> "", ofs |-> 8 * w]>>)
                     ELSE EmptyDict,
        !.num_labels = IF forward THEN EmptyDict ELSE (1 :> 8 * w)]

InitRel ==
    \E w \in 0..MaxRelWords, d \in Distances, forward \in BOOLEAN :
        /\ forward \/ w > 0
        /\ allocs = ("bufa" :> [id |-> 0, size |-> 4096, flags |-> 10255, buffer |-> <<>>])
        /\ levels = <<1>>
        /\ l = Some(1)
        /\ completed = <<>>
        /\ heap = (1 :> PreparedLevel(w, d, forward))
        /\ reloc = <<>>
        /\ reloc_split = <<>>
        /\ exe = <<>>
        /\ last_exe = None
        /\ is_call = FALSE
        /\ nextId = 2
        /\ old_indent = Some(0)
        /\ is_num_bound = TRUE
        /\ status = "running"
        /\ lineno = 0
        /\ last_line = None
        /\ abort_reason = ""
        /\ closes = <<>>
        /\ log = <<LogEvent("open", 1, -1, "", 0, 0),
                   IF forward THEN LogEvent("nf", 1, 1, "", 8 * w, 0)
                   ELSE LogEvent("def", 1, 1, "", 8 * w, 8 * w)>>
        /\ reports = <<>>
        /\ text = <<>>
        /\ first_out = None

RelLines == { NumLabel(0, 1), Branch(0, "nb", 1, "") }

NextRel ==
    \/ \E ln \in RelLines : lineno < MaxRelLines /\ InterpretLine(ln)
    \/ EndOfInput

SpecRel == InitRel /\ [][NextRel]_vars

----------------------------------------------------------------------------
(* Vocabulary of the properties *)

\* the word of Level id at byte offset ofs
WordAt(id, ofs) == heap[id].buffer[(ofs \div 8) + 1]

\* the Levels popped by pop_until while a parent was below them on the stack
NestedCloses == { i \in 1..Len(closes) : closes[i].parent # None }

\* the Levels opened on top of another Level
NestedOpens == { i \in 1..Len(log) : log[i].k = "open" /\ log[i].n >= 0 }

InCompleted(id) == \E i \in 1..Len(completed) : completed[i] = id

\* a nested Level that has been completed has exactly one record in closes,
\* naming the Level it was opened on as its parent
NestedClosedOnce ==
    \A i \in NestedOpens :
        InCompleted(log[i].lvl) =>
            /\ Cardinality({ j \in 1..Len(closes) : closes[j].child = log[i].lvl }) = 1
            /\ \E j \in NestedCloses :
                   /\ closes[j].child = log[i].lvl
                   /\ closes[j].parent = Some(log[i].n)

\* the parent's word that carries the length / the callee id, as it is now
LenWord(e) ==
    heap[The(e.parent)].buffer[PyIndex(Len(heap[The(e.parent)].buffer), The(e.len_ofs))]
AddrWord(e) ==
    heap[The(e.parent)].buffer[PyIndex(Len(heap[The(e.parent)].buffer), The(e.addr_ofs))]

----------------------------------------------------------------------------
----------------------------------------------------------------------------
----------------------------------------------------------------------------
(* C3: a call or tailcall that is assembled (did not abort) has, among the  *)
(* two words emitted immediately before it in its Level, one tagged as the  *)
(* callee-id slot and one tagged as the argument-count slot.                *)
CallEvents == { i \in 1..Len(log) : log[i].k \in {"call", "tailcall"} }

TaggedBefore(e, tag) ==
    \E back \in {8, 16} :
        /\ e.ofs - back >= 0
        /\ Top16(WordAt(e.lvl, e.ofs - back)) = tag

C3_CallNeedsBothTags ==
    \A i \in CallEvents :
        /\ TaggedBefore(log[i], CallAddrTag + log[i].to)
        /\ TaggedBefore(log[i], CallLenTag + log[i].n)

----------------------------------------------------------------------------
(* C5: a line indented less than the previous line, at the depth of no      *)
(* Level on the stack, aborts assembly at that line.                        *)
LineStep == last_line' # last_line

ThisLine == The(last_line').line

OnStack(indent) == \E i \in 1..Len(levels) : heap[levels[i]].indent = indent

BadDedent ==
    /\ LineStep
    /\ old_indent # None
    /\ ThisLine.indent < The(old_indent)
    /\ ~OnStack(ThisLine.indent)

C5_BadDedentAborts == [][BadDedent => status' = "aborted"]_vars

----------------------------------------------------------------------------
(* C6: after the first line, a Level is opened by the indentation only when *)
(* the line is indented deeper than the previous non-blank line and that    *)
(* line was a call or tailcall; a deeper line after any other line aborts;  *)
(* and one Level is opened per such increase.                               *)
OpenedNow == { i \in (Len(log) + 1)..Len(log') : log'[i].k = "open" }

Deeper == old_indent # None /\ ThisLine.indent > The(old_indent)

AfterCall == last_line # None /\ IsCallLine(The(last_line).line)

C6_OpenOnlyAfterCall ==
    [][LineStep =>
        /\ Cardinality(OpenedNow) <= 1
        /\ (old_indent # None /\ OpenedNow # {} => Deeper /\ AfterCall)
        /\ (Deeper /\ ~AfterCall => status' = "aborted")
        /\ (Deeper /\ AfterCall /\ status' = "running" =>
                /\ Cardinality(OpenedNow) = 1
                /\ nextId' > nextId
                /\ \E i \in OpenedNow : heap'[log'[i].lvl].indent = ThisLine.indent)
    ]_vars

\* a nested Level is open: the last line is deeper than the call before it
C6_Witness ==
    /\ status = "running"
    /\ Len(levels) = 2
    /\ last_line # None
    /\ The(last_line).line.indent = heap[levels[2]].indent
    /\ heap[levels[2]].indent > heap[levels[1]].indent
    /\ \E i \in CallEvents : log[i].lvl = levels[1] /\ i = Len(log) - 1

----------------------------------------------------------------------------
(* C4: every Level in the completed set has been finalized: each pending    *)
(* symbolic reference of it names a label of the Level and its branch word  *)
(* carries the displacement to that label (an undefined label would have    *)
(* aborted assembly instead).                                               *)
RefResolved(id, r) ==
    /\ Has(heap[id].labels, r.s)
    /\ WordAt(id, r.ofs) = BranchWord(0, 6, resolve_rel(heap[id].labels[r.s], r.ofs))

C4_CompletedFinalized ==
    \A i \in 1..Len(completed) :
        \A k \in 1..Len(heap[completed[i]].label_refs) :
            RefResolved(completed[i], heap[completed[i]].label_refs[k])

----------------------------------------------------------------------------
(* C7: a branch with an explicit displacement of 32768 words or more, or    *)
(* below -32768, aborts assembly, and 32767 is accepted: every explicit     *)
(* branch that was assembled has a displacement in -32768 .. 32767.         *)
ExplicitDisp(k, n) == IF k = "back" THEN (-1) - n ELSE n

InInt16(d) == d >= -32768 /\ d <= 32767

C7_DisplacementRangeChecked ==
    /\ \A i \in 1..Len(log) :
           log[i].k \in {"skip", "back"} => InInt16(ExplicitDisp(log[i].k, log[i].n))
    /\ (last_line # None /\ The(last_line).line.tk \in {"skip", "back"}) =>
           LET d == ExplicitDisp(The(last_line).line.tk, The(last_line).line.tn)
           IN  /\ ~InInt16(d) => status = "aborted"
               /\ d = 32767 => abort_reason = ""

----------------------------------------------------------------------------
(* C8: for a branch at byte offset B resolved against a label at byte       *)
(* offset O of the same Level, the 16-bit field of the branch word is       *)
(* ((O-B)/8 - 1) mod 2^16, and B + 8*(d+1), d the field sign-extended, is O.*)
Resolved == { i \in 1..Len(log) : log[i].k \in {"nb", "patch"} }

C8_BranchRoundTrip ==
    \A i \in Resolved :
        LET B == log[i].ofs
            O == log[i].to
            f == WordAt(log[i].lvl, B).v0
        IN  /\ f = (((O - B) \div 8) - 1) % Lane
            /\ B + 8 * (SignExtend16(f) + 1) = O

----------------------------------------------------------------------------
(* C9: in one Level, a branch `Nb` carries the displacement to the most     *)
(* recent definition of N before it; a branch `Nf` is patched exactly once, *)
(* with the displacement to the first definition of N after it, and is then *)
(* off N's pending list, so that a redefinition of N leaves it alone; until *)
(* N is defined the branch is pending and its field is zero.                *)
SameLabel(i, j) == log[j].k = "def" /\ log[j].lvl = log[i].lvl /\ log[j].n = log[i].n

DefsBefore(i) == { j \in 1..(i - 1) : SameLabel(i, j) }
DefsAfter(i) == { j \in (i + 1)..Len(log) : SameLabel(i, j) }

MaxOf(S) == CHOOSE x \in S : \A y \in S : y <= x
MinOf(S) == CHOOSE x \in S : \A y \in S : x <= y

PatchesOf(i) ==
    { j \in 1..Len(log) :
        log[j].k = "patch" /\ log[j].lvl = log[i].lvl /\ log[j].ofs = log[i].ofs }

Pending(i) ==
    /\ Has(heap[log[i].lvl].num_refs, log[i].n)
    /\ \E k \in 1..Len(heap[log[i].lvl].num_refs[log[i].n]) :
           heap[log[i].lvl].num_refs[log[i].n][k].ofs = log[i].ofs

C9_NumericLabels ==
    \A i \in 1..Len(log) :
        /\ log[i].k = "nb" =>
               /\ DefsBefore(i) # {}
               /\ WordAt(log[i].lvl, log[i].ofs) =
                      BranchWord(0, 6, resolve_rel(log[MaxOf(DefsBefore(i))].ofs, log[i].ofs))
        /\ log[i].k = "nf" =>
               IF DefsAfter(i) = {}
               THEN /\ PatchesOf(i) = {}
                    /\ Pending(i)
                    /\ WordAt(log[i].lvl, log[i].ofs) = BranchWord(0, 6, 0)
               ELSE /\ Cardinality(PatchesOf(i)) = 1
                    /\ ~Pending(i)
                    /\ WordAt(log[i].lvl, log[i].ofs) =
                           BranchWord(0, 6, resolve_rel(log[MinOf(DefsAfter(i))].ofs,
                                                        log[i].ofs))

\* `b 1f`, a definition of 1, a redefinition of 1 further on, then `b 1b`,
\* all in one Level
C9_Witness ==
    \E i, j, k, m \in 1..Len(log) :
        /\ i < j /\ j < k /\ k < m
        /\ log[i].k = "nf" /\ log[m].k = "nb"
        /\ log[m].lvl = log[i].lvl /\ log[m].n = log[i].n
        /\ SameLabel(i, j) /\ SameLabel(i, k)
        /\ log[j].ofs < log[k].ofs

----------------------------------------------------------------------------
(* C10: a line `b Nb` is assembled only if N was defined earlier in the     *)
(* Level that receives the branch; otherwise assembly aborts.               *)
C10_BackwardNeedsLocalDef ==
    [][(LineStep /\ ThisLine.m = "b" /\ ThisLine.tk = "nb" /\ status' = "running") =>
          /\ log'[Len(log')].k = "nb"
          /\ log'[Len(log')].lvl = The(l')
          /\ \E j \in 1..(Len(log') - 1) :
                 /\ log'[j].k = "def"
                 /\ log'[j].lvl = The(l')
                 /\ log'[j].n = ThisLine.tn
    ]_vars

\* `b 1b` as the first line of a nested Level aborted although the parent
\* defines 1
C10_Witness ==
    /\ status = "aborted"
    /\ abort_reason = "AssertionError: label in num_labels"
    /\ is_call
    /\ The(last_line).line.indent > The(old_indent)
    /\ Has(heap[The(l)].num_labels, The(last_line).line.tn)

----------------------------------------------------------------------------
(* C11: in a finalized Level, a symbolic branch that follows a definition   *)
(* of its label carries the displacement to the first definition of that    *)
(* label in the Level, whatever redefinitions come later.                   *)

\* the Level went through Level.finish: it was completed by flush_exe, not
\* popped by pop_until
Finalized(id) == InCompleted(id) /\ \A i \in 1..Len(closes) : closes[i].child # id

SymDefs(i) ==
    { j \in 1..Len(log) :
        log[j].k = "symdef" /\ log[j].lvl = log[i].lvl /\ log[j].s = log[i].s }

C11_FirstDefinitionWins ==
    \A i \in 1..Len(log) :
        (/\ log[i].k = "sym"
         /\ Finalized(log[i].lvl)
         /\ \E j \in SymDefs(i) : j < i) =>
            WordAt(log[i].lvl, log[i].ofs) =
                BranchWord(0, 6, resolve_rel(log[MinOf(SymDefs(i))].ofs, log[i].ofs))

----------------------------------------------------------------------------
(* Vocabulary of the properties about single lines *)

\* the step consumed a line and no exception was raised
Accepted == LineStep /\ status' = "running"

\* the words the step appended to the Level that is active after it
Appended ==
    LET id == The(l')
        before == IF Has(heap, id) THEN Len(heap[id].buffer) ELSE 0
    IN  SubSeq(heap'[id].buffer, before + 1, Len(heap'[id].buffer))

\* the low 48 bits of the word are zero
ZeroValue(w) == w.v0 = 0 /\ w.v1 = 0 /\ w.v2 = 0

\* the mnemonics that assemble to one word
SingleWord(ln) ==
    ln.m \in {"nop", "mov", "add", "wait", "slot", "idvs", "call", "tailcall", "b"}

\* the mnemonics and directives the assembler knows, of those modelled
Recognised(ln) ==
    SingleWord(ln) \/ ln.m \in {"", "movp", "!cs", "!parallel", "!alloc", "!dump",
                                "!dump64", "!fdump", "!delta", "!tiler", "!heatmap",
                                "!memset", "!raw"}

----------------------------------------------------------------------------
(* C12: an accepted line with a symbolic operand appends exactly one        *)
(* relocation (active Level id, byte offset of the line's first word,       *)
(* target buffer id, off): to the split list for movp, whose two words      *)
(* carry zero, and to the full-address list for any other instruction,      *)
(* whose one word carries zero; the other list is left alone, and `$.`      *)
(* targets the active Level.                                                *)
SymTarget ==
    IF The(ThisLine.sym).name = "." THEN The(l')
    ELSE allocs[The(ThisLine.sym).name].id

SymEntry ==
    <<The(l'), offset(heap'[The(l')]) - 8 * Len(Appended), SymTarget,
      The(ThisLine.sym).off>>

C12_SymbolicOperand ==
    [][(Accepted /\ ThisLine.sym # None) =>
          IF ThisLine.m = "movp"
          THEN /\ reloc_split' = Append(reloc_split, SymEntry)
               /\ reloc' = reloc
               /\ Len(Appended) = 2
               /\ ZeroValue(Appended[1]) /\ ZeroValue(Appended[2])
          ELSE /\ reloc' = Append(reloc, SymEntry)
               /\ reloc_split' = reloc_split
               /\ Len(Appended) = 1
               /\ ZeroValue(Appended[1])
    ]_vars

\* a movp with `$bufa+16` at offset 0, then a mov with `$.+8` at offset 16
C12_Witness ==
    /\ reloc_split = <<<<1, 0, 0, 16>>>>
    /\ reloc = <<<<1, 16, 1, 8>>>>
    /\ Len(heap[1].buffer) = 3

----------------------------------------------------------------------------
(* C16: a line whose mnemonic is not recognised aborts assembly at that     *)
(* line.                                                                    *)
C16_UnknownAborts ==
    [][(LineStep /\ ~Recognised(ThisLine)) => status' = "aborted"]_vars

----------------------------------------------------------------------------
(* C17: an add whose immediate is below -2^31 or at least 2^32 aborts       *)
(* assembly.                                                                *)
FitsAdd(v) ==
    \/ v.hi = 0 /\ v.v2 = 0
    \/ v.hi = -1 /\ v.v2 = Lane - 1 /\ v.v1 >= 32768

C17_AddOverflowAborts ==
    [][(LineStep /\ ThisLine.m = "add" /\ ~FitsAdd(ThisLine.val)) =>
          status' = "aborted"]_vars

----------------------------------------------------------------------------
(* C18: the word an accepted single-word instruction appends lies in        *)
(* 0 .. 2^64-1 and reads back as opcode, address field, value: its top byte *)
(* is the instruction's opcode and its next byte the address operand.       *)
Opcode(ln) ==
    CASE ln.m = "nop" -> 0
      [] ln.m = "mov" -> IF ln.rw = "x" THEN 1 ELSE 2
      [] ln.m = "add" -> IF ln.rw = "w" THEN 16 ELSE 17
      [] ln.m = "wait" -> 3
      [] ln.m = "slot" -> 23
      [] ln.m = "idvs" -> 6
      [] ln.m = "call" -> 32
      [] ln.m = "tailcall" -> 33
      [] ln.m = "b" -> 22

AddressOperand(ln) == IF ln.m \in {"mov", "add"} THEN ln.r1 ELSE 0

C18_WordShape ==
    [][(Accepted /\ SingleWord(ThisLine)) =>
          /\ Len(Appended) = 1
          /\ Appended[1].hi \in 0..(Lane - 1)
          /\ Appended[1].hi \div 256 = Opcode(ThisLine)
          /\ Appended[1].hi % 256 = AddressOperand(ThisLine)
    ]_vars

----------------------------------------------------------------------------
(* C19: a single-word instruction whose immediate is 2^48 or more aborts    *)
(* assembly.                                                                *)
C19_WideImmediateAborts ==
    [][(LineStep /\ ThisLine.m \in {"mov", "add", "slot"} /\ ThisLine.sym = None
          /\ ThisLine.val.hi >= 1) => status' = "aborted"]_vars

----------------------------------------------------------------------------
(* C20: an accepted annotated line appends the word it computes, the word   *)
(* the same line appends without its annotation, and a mismatch is printed  *)
(* exactly when that word differs from the annotation.                      *)
Computed ==
    LET c == LineResult(Ctx, [ThisLine EXCEPT !.given = None])
    IN  Last(c.heap[The(c.l)].buffer)

MismatchTold ==
    \E i \in (Len(reports) + 1)..Len(reports') : reports'[i].k = "mismatch"

C20_AnnotationCompared ==
    [][(Accepted /\ ThisLine.given # None /\ ThisLine.m \notin {"", "movp", "!cs"}) =>
          /\ Appended = <<Computed>>
          /\ MismatchTold <=> Computed # The(ThisLine.given)
    ]_vars

----------------------------------------------------------------------------
(* C13: assembling the same text twice against the same registry, one run   *)
(* after the other, yields the same serialized output: the same buffer ids, *)
(* sizes, words, relocation records and execution script.                   *)
C13_SecondRunSameOutput ==
    (first_out # None /\ status = "done") => Output = The(first_out)

----------------------------------------------------------------------------
(* C14: `mov x10,$bufA` then `wait 0`, against a registry whose one region  *)
(* is bufA of size 4096, is assembled without an exception, and ends with   *)
(* one completed Level of two words, one full-address relocation from       *)
(* offset 0 of that Level to bufA+0, and no mismatch reported.              *)
EndToEndText == << MovCommaBufA, Wait0 >>

C14_EndToEnd ==
    ( /\ first_out = None
      /\ Has(allocs, "bufA")
      /\ Len(text) <= Len(EndToEndText)
      /\ text = SubSeq(EndToEndText, 1, Len(text)) )
    => /\ status # "aborted"
       /\ (status = "done" /\ text = EndToEndText) =>
             /\ Len(completed) = 1
             /\ Len(heap[completed[1]].buffer) = 2
             /\ reloc = << <<completed[1], 0, allocs["bufA"].id, 0>> >>
             /\ \A i \in 1..Len(reports) : reports[i].k # "mismatch"

----------------------------------------------------------------------------
(* C15: for every descriptor table, of any length, the Alloc holds all the  *)
(* table's entries in order, two 32-bit slots per 64-bit word with the      *)
(* earlier slot in the low half and a symbolic reference taking two zero    *)
(* slots; the Alloc's size is 8 times its word count; and each symbolic     *)
(* reference has appended one full-address relocation (table id, 4 times    *)
(* the slot index of the reference, target id, sub-offset).                 *)

\* the slots a table asks for: one per literal, two zeros per reference
RECURSIVE TableSlots(_)
TableSlots(words) ==
    IF words = <<>> THEN <<>>
    ELSE (IF Head(words).k = "int" THEN <<Head(words).v>> ELSE <<0, 0>>)
         \o TableSlots(Tail(words))

\* the relocations a table asks for, from the slot index n
RECURSIVE TableRelocs(_, _, _)
TableRelocs(id, words, n) ==
    IF words = <<>> THEN <<>>
    ELSE IF Head(words).k = "int" THEN TableRelocs(id, Tail(words), n + 1)
    ELSE <<<<id, 4 * n, allocs[Head(words).alloc].id, Head(words).offset>>>>
         \o TableRelocs(id, Tail(words), n + 2)

Low32(w) == w.v1 * Lane + w.v0
High32(w) == w.hi * Lane + w.v2

\* slot j (from 1) of the buffer, -1 when the buffer has no such slot
SlotAt(buffer, j) ==
    IF (j + 1) \div 2 > Len(buffer) THEN -1
    ELSE IF j % 2 = 1 THEN Low32(buffer[(j + 1) \div 2])
    ELSE High32(buffer[(j + 1) \div 2])

RelocsOf(id) == SelectSeq(reloc, LAMBDA r : r[1] = id)

C15_TablePacked ==
    \A i \in Descs :
        LET e == log[i]
            a == allocs[e.name]
            slots == TableSlots(e.words)
        IN  /\ a.id = e.id
            /\ \A j \in 1..Len(slots) : SlotAt(a.buffer, j) = slots[j]
            /\ a.size = 8 * Len(a.buffer)
            /\ RelocsOf(e.id) = TableRelocs(e.id, e.words, 0)

----------------------------------------------------------------------------
(* C21: a Level in the completed set is immutable: no step appends a word   *)
(* to it or patches one of its words, and no line is assembled with it as   *)
(* the active Level.                                                        *)
C21_CompletedImmutable ==
    [][\A i \in 1..Len(completed) :
          /\ heap'[completed[i]].buffer = heap[completed[i]].buffer
          /\ (LineStep /\ status' = "running") => l' # Some(completed[i])
    ]_vars

----------------------------------------------------------------------------
(* C22: when assembly has ended successfully, every Level that received a   *)
(* word is in the completed set, the stack holds one empty Level, and each  *)
(* Level opened after a call comes in the completed set before the Level    *)
(* that holds the call.                                                     *)

\* the place of the Level in the completed set, 0 when it is not in it
PlaceOf(id) ==
    IF InCompleted(id) THEN CHOOSE i \in 1..Len(completed) : completed[i] = id ELSE 0

\* the Levels opened by a deeper line after a call, with the call before them
OpenedAfterCall ==
    { i \in 2..Len(log) : log[i].k = "open" /\ log[i - 1].k \in {"call", "tailcall"} }

AllWordsCompleted ==
    /\ \A id \in DOMAIN heap : heap[id].buffer # <<>> => InCompleted(id)
    /\ Len(levels) = 1
    /\ heap[levels[1]].buffer = <<>>

ChildBeforeCaller(i) ==
    /\ InCompleted(log[i].lvl)
    /\ InCompleted(log[i - 1].lvl)
    /\ PlaceOf(log[i].lvl) < PlaceOf(log[i - 1].lvl)

C22_CompletedInOrder ==
    status = "done" =>
        /\ AllWordsCompleted
        /\ \A i \in OpenedAfterCall : ChildBeforeCaller(i)

----------------------------------------------------------------------------
(* C23: when a nested Level closes, one full-address relocation (parent id, *)
(* byte offset of the parent's callee-id word, child id, 0) is appended,    *)
(* one for each nested Level closed; the callee-id word is one of the two   *)
(* words before the call that opened the child (each call patches its own   *)
(* words); and the parent's call-site bookkeeping is cleared.               *)

\* the relocations whose target is the Level
RelocsTo(id) == { k \in 1..Len(reloc) : reloc[k][3] = id }

\* the call after which the Level of the close record was opened
CallOf(e) ==
    log[(CHOOSE i \in OpenedAfterCall : log[i].lvl = e.child) - 1]

\* one relocation for each nested Level closed, at the word the close found
OneRelocPerClose ==
    \A j \in NestedCloses :
        /\ Cardinality(RelocsTo(closes[j].child)) = 1
        /\ \A k \in RelocsTo(closes[j].child) :
               reloc[k] = <<The(closes[j].parent), 8 * The(closes[j].addr_ofs),
                            closes[j].child, 0>>

\* the word the close found is the callee-id word of the child's own call
OwnCalleeWord ==
    \A j \in NestedCloses :
        /\ 8 * The(closes[j].addr_ofs) \in
              { CallOf(closes[j]).ofs - 16, CallOf(closes[j]).ofs - 8 }
        /\ closes[j].addr_top = Some(CallAddrTag + CallOf(closes[j]).to)

\* the closes of the step leave their parents without call-site bookkeeping,
\* unless the line of the step is itself a call
BookkeepingCleared ==
    \A j \in (Len(closes) + 1)..Len(closes') :
        (closes'[j].parent # None /\ ~IsCallLine(ThisLine)) =>
            /\ heap'[The(closes'[j].parent)].call_addr_offset = None
            /\ heap'[The(closes'[j].parent)].call_len_offset = None

C23_CloseRelocation ==
    [][OneRelocPerClose' /\ OwnCalleeWord' /\ (LineStep => BookkeepingCleared)]_vars

----------------------------------------------------------------------------
(* C24: the serialized output lists every Buffer of the registry (id, size, *)
(* flags, words), then every completed Level in completion order, then      *)
(* every full-address relocation, then every split-address relocation,      *)
(* then every step of the execution script, each group in its own order and *)
(* nothing else.                                                            *)
C24_OutputOrder ==
    status = "done" =>
        LET n1 == Cardinality(DOMAIN allocs)
            n2 == n1 + Len(completed)
            n3 == n2 + Len(reloc)
            n4 == n3 + Len(reloc_split)
        IN  /\ Len(Repr) = n4 + Len(exe)
            /\ \A name \in DOMAIN allocs :
                   \E i \in 1..n1 :
                       Repr[i] = <<"buffer", allocs[name].id, allocs[name].size,
                                   allocs[name].flags, allocs[name].buffer>>
            /\ \A k \in 1..Len(completed) :
                   Repr[n1 + k] = <<"buffer", completed[k],
                                    8 * Len(heap[completed[k]].buffer), 8207,
                                    heap[completed[k]].buffer>>
            /\ \A k \in 1..Len(reloc) : Repr[n2 + k] = <<"reloc">> \o reloc[k]
            /\ \A k \in 1..Len(reloc_split) :
                   Repr[n3 + k] = <<"relsplit">> \o reloc_split[k]
            /\ \A k \in 1..Len(exe) : Repr[n4 + k] = exe[k]

\* an output with two registry Buffers, two completed Levels, a relocation of
\* each kind and a step
C24_Witness ==
    /\ status = "done"
    /\ Cardinality(DOMAIN allocs) = 2
    /\ Len(completed) = 2
    /\ Len(reloc) = 1
    /\ Len(reloc_split) = 1
    /\ Len(exe) = 1

----------------------------------------------------------------------------
(* C25: a memory region declared with a (size, flags) pair has, in the      *)
(* serialized output, a Buffer record with that size, those flags and no    *)
(* words; a region declared with a size only has the flags 0x280f.  (A name *)
(* the text binds again with !alloc stands for another Buffer from then     *)
(* on.)                                                                     *)

\* the regions the registry declared, and the names !alloc has bound
Regions == { i \in 1..Len(log) : log[i].k = "mem" }
Rebound == { log[i].name : i \in { j \in 1..Len(log) : log[j].k = "alloc" } }

----------------------------------------------------------------------------
(* C26: every offset the assembly records is a multiple of 8 bytes: each    *)
(* Level's current offset, each symbolic and numeric label binding, each    *)
(* pending branch reference, and the source offset of every full-address    *)
(* and split-address relocation, whether its source is a code Level or a    *)
(* descriptor table.                                                        *)
Aligned8(n) == n % 8 = 0

LevelOffsetsAligned ==
    \A id \in DOMAIN heap :
        LET lvl == heap[id]
        IN  /\ Aligned8(offset(lvl))
            /\ \A s \in DOMAIN lvl.labels : Aligned8(lvl.labels[s])
            /\ \A n \in DOMAIN lvl.num_labels : Aligned8(lvl.num_labels[n])
            /\ \A k \in 1..Len(lvl.label_refs) : Aligned8(lvl.label_refs[k].ofs)
            /\ \A n \in DOMAIN lvl.num_refs :
                   \A k \in 1..Len(lvl.num_refs[n]) :
                       Aligned8(lvl.num_refs[n][k].ofs)

RelocSourcesAligned ==
    /\ \A k \in 1..Len(reloc) : Aligned8(reloc[k][2])
    /\ \A k \in 1..Len(reloc_split) : Aligned8(reloc_split[k][2])

C26_OffsetsAligned == LevelOffsetsAligned /\ RelocSourcesAligned


----------------------------------------------------------------------------
(* C27: all Buffers ever created, the Allocs of the registry and of !alloc  *)
(* and every Level, also one that stays empty, have pairwise distinct ids,  *)
(* and the id of a Buffer never changes after its creation.                 *)

\* the creations of Allocs recorded so far
AllocEvents == { i \in 1..Len(log) : log[i].k \in {"mem", "alloc", "desc"} }

\* the ids of all Allocs: those created so far and those of the registry
AllocIds == { log[i].id : i \in AllocEvents } \cup
            { allocs[n].id : n \in DOMAIN allocs }

DistinctIds ==
    /\ \A i, j \in AllocEvents : i # j => log[i].id # log[j].id
    /\ \A m, n \in DOMAIN allocs : m # n => allocs[m].id # allocs[n].id
    /\ AllocIds \cap DOMAIN heap = {}
    /\ \A id \in AllocIds \cup DOMAIN heap : id < nextId
    /\ Cardinality(AllocEvents) + Cardinality(DOMAIN heap) = nextId

\* the latest creation of an Alloc under the name n
LastCreation(n) ==
    LET S == { i \in AllocEvents : log[i].name = n }
    IN  CHOOSE i \in S : \A j \in S : j <= i

IdsKept ==
    /\ \A n \in DOMAIN allocs :
           /\ \E i \in AllocEvents : log[i].name = n
           /\ allocs[n].id = log[LastCreation(n)].id
    /\ \A id \in DOMAIN heap : id \in DOMAIN heap'
    /\ \A id \in DOMAIN heap' \ DOMAIN heap : id >= nextId
    /\ \A i \in AllocEvents : i \in AllocEvents' /\ log'[i].id = log[i].id
    /\ \A i \in AllocEvents' \ AllocEvents : log'[i].id >= nextId

C27_DistinctIds == [][DistinctIds' /\ IdsKept]_vars

\* two Allocs and three Levels, one of them empty, have been created
C27_Witness ==
    /\ status = "done"
    /\ Cardinality(AllocEvents) >= 2
    /\ Cardinality(DOMAIN heap) >= 3
    /\ \E id \in DOMAIN heap : heap[id].buffer = <<>>
    /\ \E i \in AllocEvents : log[i].k = "alloc" /\ log[i].name = "bufa"


----------------------------------------------------------------------------
(* C28: the execution script holds exactly one step for each !cs, each      *)
(* !dump, !dump64, !fdump, !delta or !tiler, each !heatmap, each !memset    *)
(* and each !raw of the text, in the order of the text; instruction lines   *)
(* and !alloc add no step.                                                  *)
DumpDirectives == {"!dump", "!dump64", "!fdump", "!delta", "!tiler"}

StepDirectives == {"!cs", "!heatmap", "!memset", "!raw"} \cup DumpDirectives

\* the lines of the text that ask for a step, in the order of the text
StepLines == SelectSeq(text, LAMBDA ln : ln.m \in StepDirectives)

NamesAlloc(name, id) ==
    \E i \in AllocEvents : log[i].name = name /\ log[i].id = id

IsPrefix(s, t) == Len(s) <= Len(t) /\ SubSeq(t, 1, Len(s)) = s

\* the step e is the one the directive ln asks for
StepOf(ln, e) ==
    CASE ln.m = "!cs" -> IsPrefix(<<"exe", ln.imm>>, e)
      [] ln.m \in DumpDirectives ->
            /\ Len(e) = 5 /\ e[1] = "dump" /\ NamesAlloc(ln.args[1], e[2])
            /\ SubSeq(e, 3, 5) = <<ln.args[2], ln.args[3], DumpMode(ln.m)>>
      [] ln.m = "!heatmap" ->
            /\ Len(e) = 7 /\ e[1] = "heatmap" /\ NamesAlloc(ln.args[1], e[2])
            /\ SubSeq(e, 3, 7) = SubSeq(ln.args, 2, 6)
      [] ln.m = "!memset" ->
            /\ Len(e) = 5 /\ e[1] = "memset" /\ NamesAlloc(ln.args[1], e[2])
            /\ SubSeq(e, 3, 5) = SubSeq(ln.args, 2, 4)
      [] ln.m = "!raw" -> IsPrefix(ln.args, e)

C28_OneStepPerDirective ==
    status # "aborted" =>
        /\ Len(exe) = Len(StepLines)
        /\ \A k \in 1..Len(exe) : StepOf(StepLines[k], exe[k])

\* a text of a !cs, an instruction, an !alloc and a step after them
C28_Witness ==
    /\ status = "done"
    /\ Len(text) = 4
    /\ Len(exe) = 2
    /\ text[1].m = "!cs" /\ text[4].m \in {"!raw", "!tiler"}
    /\ \E k \in 2..3 : text[k].m = "!alloc"
    /\ \E k \in 2..3 : text[k].m = "mov"


----------------------------------------------------------------------------
(* C29: when assembly has ended successfully, every !cs step carries the id *)
(* and the byte length of the top-level Level assembled from the            *)
(* instructions between that !cs and the next one (or the end of the text), *)
(* no two !cs steps carry the same Level, and a !cs whose section has no    *)
(* instruction carries no Level.  Stated for texts without !parallel, whose *)
(* operand shares the step with the Level.                                  *)

\* the positions of the !cs lines in the text
CsPositions == { i \in 1..Len(text) : text[i].m = "!cs" }

\* the lines between the !cs at position i and the next !cs
Section(i) ==
    { j \in (i + 1)..Len(text) : \A k \in (i + 1)..j : text[k].m # "!cs" }

\* the number of words the instruction at position j assembles to
WordsOfLine(j) ==
    CASE text[j].m = "mov" -> 1
      [] text[j].m = "movp" -> 2
      [] OTHER -> 0

RECURSIVE SumWords(_)
SumWords(S) ==
    IF S = {} THEN 0
    ELSE LET j == CHOOSE x \in S : TRUE
         IN  WordsOfLine(j) + SumWords(S \ {j})

\* the step of the !cs at position i
CsStep(i) == exe[Len(SelectSeq(SubSeq(text, 1, i), LAMBDA ln : ln.m \in StepDirectives))]

CarriesOwnLevel(i) ==
    LET e == CsStep(i)
        n == SumWords(Section(i))
    IN  IF n = 0 THEN Len(e) = 2
        ELSE /\ Len(e) = 4
             /\ \E k \in 1..Len(completed) : completed[k] = e[3]
             /\ e[4] = 8 * n
             /\ e[4] = offset(heap[e[3]])

C29_CsCarriesOwnLevel ==
    (status = "done" /\ \A j \in 1..Len(text) : text[j].m # "!parallel") =>
        /\ \A i \in CsPositions : CarriesOwnLevel(i)
        /\ \A i, j \in CsPositions :
               (i # j /\ Len(CsStep(i)) >= 4 /\ Len(CsStep(j)) >= 4)
                   => CsStep(i)[3] # CsStep(j)[3]

\* the same for texts in which every !cs is followed by an instruction of its
\* own section and no instruction precedes the first !cs
EverySectionAssembles ==
    /\ \A i \in CsPositions : SumWords(Section(i)) > 0
    /\ \A j \in 1..Len(text) : WordsOfLine(j) > 0 => \E i \in CsPositions : i < j

C29_NonEmptySections ==
    (status = "done" /\ EverySectionAssembles
        /\ \A j \in 1..Len(text) : text[j].m # "!parallel") =>
        /\ \A i \in CsPositions : CarriesOwnLevel(i)
        /\ \A i, j \in CsPositions : i # j => CsStep(i)[3] # CsStep(j)[3]


----------------------------------------------------------------------------
(* C30: when assembly has ended successfully, the source and the target of  *)
(* every full-address and split-address relocation are ids of buffers of    *)
(* the output, an Alloc of the registry or a completed Level; also when     *)
(* !alloc binds a name again that an operand has referred to.               *)
OutputIds == { allocs[n].id : n \in DOMAIN allocs } \cup
             { completed[k] : k \in 1..Len(completed) }

RelocsInOutput(rs) ==
    \A k \in 1..Len(rs) : rs[k][1] \in OutputIds /\ rs[k][3] \in OutputIds

C30_RelocIdsInOutput ==
    status = "done" => RelocsInOutput(reloc) /\ RelocsInOutput(reloc_split)

\* the same for texts that bind no name a second time
C30_NoRebinding ==
    (status = "done"
        /\ \A i, j \in AllocEvents : i # j => log[i].name # log[j].name) =>
        RelocsInOutput(reloc) /\ RelocsInOutput(reloc_split)


----------------------------------------------------------------------------
(* C31: at the moment a Level enters the completed set its table of pending *)
(* numeric forward references is empty: every `Nf` branch in it has been    *)
(* patched against a later definition of N.                                 *)

\* the Levels the step completes
NewlyCompleted ==
    { completed'[k] : k \in 1..Len(completed') } \
    { completed[k] : k \in 1..Len(completed) }

C31_NoPendingForwardRefs ==
    [][\A id \in NewlyCompleted : DOMAIN heap'[id].num_refs = {}]_vars

\* the `Nf` branches of the Level id, as events of the history after the step
ForwardBranches(id) ==
    { i \in 1..Len(log') : log'[i].k = "nf" /\ log'[i].lvl = id }

\* the part of C31 about branches whose label the Level defines later: they
\* have been patched and are no longer pending when the Level is completed
C31_DefinedRefsPatched ==
    [][\A id \in NewlyCompleted : \A i \in ForwardBranches(id) :
           (DefsAfter(i) # {})' => (~Pending(i) /\ Cardinality(PatchesOf(i)) = 1)'
    ]_vars

====
